---- MODULE Spec2Model ----
(***************************************************************************)
(* Model of the gesture-shooter engine (src/gesture_shooter).              *)
(*                                                                         *)
(* The engine object is one record, eng, whose fields carry the names of   *)
(* the attributes of GameEngine.  Every method of GameEngine is an         *)
(* operator that maps an engine record (and the method's inputs: the aim   *)
(* point, the values read from the wall clock, the random draws) to the    *)
(* engine record after the call.  Actions apply one method each.           *)
(*                                                                         *)
(* Conventions                                                             *)
(*  - time.time() * 1000 is an integer number of milliseconds (now).       *)
(*  - Optional[Tuple[int,int]] is a sequence: << >> is None, <<x, y>> a    *)
(*    point.                                                               *)
(*  - the float multipliers of a difficulty profile are kept in            *)
(*    hundredths (0.85 is 85), and int(round(b * mul)) is RoundDiv.        *)
(*  - eng.cues is the log of the keys handed to _play_sound by the last    *)
(*    method call (the sound player is an external collaborator).          *)
(***************************************************************************)
EXTENDS Integers, Sequences, FiniteSets, TLC

VARIABLES eng, now, last

vars == <<eng, now, last>>

(***************************************************************************)
(* Bounds of the model.                                                    *)
(***************************************************************************)
\* The wall clock at construction; any value beyond the longest cooldown.
StartMs == 1000
\* The clock is followed for this many milliseconds after construction.
Horizon == 1500
\* At most this many live targets are spawned at a time.
MaxTargets == 2
\* No further target is spawned once the score has reached this value.
MaxScore == 1

\* Durations by which the clock advances between two loop iterations.
Deltas == {300, 1200}
\* Aim points handed to a shoot attempt (<< >> is the absent aim point).
Aims == {<< >>, <<100, 100>>, <<160, 100>>}
\* Positions drawn by spawn_target.
SpawnPoints == {<<100, 100>>, <<120, 100>>}
\* Draws of random.random(), in hundredths.
RandomDraws == {10, 70, 95}
\* Velocities drawn for a moving target (speed 2, inside uniform(1,3) * mul
\* for each of the three profiles).
Velocities == {<<2, 0>>}
\* Lives drawn for the 18 particles of one explosion
\* (random.randint(250, 600) each): short and long ones alternate.
ParticleLives == {[i \in 1..18 |-> IF i % 2 = 0 THEN 250 ELSE 600]}

\* Names that are not in the table of difficulty profiles.
UnknownLevels == {"Insane", "easy", ""}

\* The targets of the specification of Target: where they start (the
\* corners and the middle of the rectangle spawn_target draws from), the
\* size multipliers of the profiles, and velocities of speed 2 to 3.
MaxUpdates == 5

StartXs == {50, 53, 640, 1230}

StartYs == {50, 360, 670}

TargetTypes == {"static", "moving", "small"}

SizeMuls == {90, 100, 110}

BounceVelocities ==
  {<<-3, 0>>, <<3, 0>>, <<0, -3>>, <<0, 3>>, <<-2, -2>>, <<2, 2>>, <<-2, 1>>}

\* The points a target of radius r is tested against, as offsets from its
\* centre: the centre, the rim and one pixel off it on both axes, and two
\* oblique points on either side of the rim (3r/5, 4r/5 is on it when 5
\* divides r).
AimOffsets(r) ==
  {<<0, 0>>, <<r, 0>>, <<r + 1, 0>>, <<-r, 0>>, <<-(r + 1), 0>>,
   <<0, r>>, <<0, r + 1>>, <<0, -r>>, <<0, -(r + 1)>>,
   <<(3 * r) \div 5, (4 * r) \div 5>>,
   <<(3 * r) \div 5 + 1, (4 * r) \div 5>>, <<r - 1, r - 1>>}

\* The calls of the specification of MovementFilter: at most MaxAdds
\* positions are added; the positions of tests/test_hand_utils.py and the
\* absent one; window sizes from 0 (taken as 1) to 5.
MaxAdds == 4

Positions == {<<0, 0>>, <<9, 6>>, <<6, 12>>, <<10, 10>>}

BufferSizes == {0, 2, 3, 5}

\* The calls of the specification of Calibration: the screen heights the
\* trackers are built with (720 by main.py, 480 by a test), and lists of
\* landmarks whose wrist is above, on and below the screen, around the
\* quarter, the half and the full height; << >> is an absent or empty
\* list.
ScreenHeights == {720, 480}

WristYs ==
  {-5, 0, 10, 119, 120, 179, 180, 181, 240, 360, 361, 480, 481, 540, 719,
   720, 721, 900}

LandmarkLists == {<< >>} \cup {<<<<0, y>>>> : y \in WristYs}

\* The calls of the specification of MouseTracker: the screens of main.py
\* and of tests/test_mouse_tracker.py, and raw pointer coordinates inside,
\* on the rim of and outside each of them.
TrackerScreens == {<<1280, 720>>, <<640, 480>>, <<300, 300>>}

RawXs == {-10, 0, 100, 299, 300, 639, 640, 1279, 1280, 5000}

RawYs == {-10, 0, 200, 299, 300, 479, 480, 719, 720, 5000}

\* The events of the pygame queue: keys pressed and released, the window
\* close, and the pointer over each rectangle of the options overlay, on
\* both ends of the volume bar and off it.
KeyEvent(type, key) ==
  [type |-> type, key |-> key, button |-> 0, pos |-> <<0, 0>>]

PointerEvent(type, button, pos) ==
  [type |-> type, key |-> "", button |-> button, pos |-> pos]

Keys ==
  {"ESCAPE", "p", "o", "r", "1", "2", "3", "4", "m", "MINUS", "KP_PLUS",
   "SPACE", "x"}

ClickPoints ==
  {<<810, 490>>, <<350, 300>>, <<350, 370>>, <<500, 370>>, <<650, 370>>,
   <<800, 370>>, <<460, 290>>, <<550, 295>>, <<820, 295>>, <<100, 100>>}

DragPoints == {<<400, 295>>, <<730, 500>>, <<960, 295>>}

Events ==
  {KeyEvent("KEYDOWN", k) : k \in Keys}
    \cup {KeyEvent("KEYUP", "SPACE"), KeyEvent("QUIT", "")}
    \cup {PointerEvent("MOUSEBUTTONDOWN", 1, pos) : pos \in ClickPoints}
    \cup {PointerEvent("MOUSEBUTTONDOWN", 3, <<550, 295>>),
          PointerEvent("MOUSEBUTTONUP", 1, <<550, 295>>)}
    \cup {PointerEvent("MOUSEMOTION", 0, pos) : pos \in DragPoints}

(***************************************************************************)
(* Program constants.                                                      *)
(***************************************************************************)
reload_time_ms == 1200
NoAmmoMsgMs == 700
MuzzleFlashMs == 90
NumParticles == 18

screen_width == 1280
screen_height == 720

\* Volumes are counted in pixels of the volume bar of the options overlay:
\* VolumeOne is the volume 1.0, VolumeStep the 0.05 of a volume key and
\* InitialVolume the 0.8 of the constructor.
VolumeOne == 360
VolumeStep == 18
InitialVolume == 288

Cues == {"shot", "hit", "reload", "dry"}

\* sound_volumes, the base volume of each cue in tenths.
sound_volumes == [shot |-> 9, hit |-> 8, reload |-> 8, dry |-> 7]

Levels == {"Easy", "Normal", "Hard"}

difficulty_levels ==
  [Easy |->
     [spawn_interval |-> 70, spawn_interval_min |-> 30, max_ammo |-> 8,
      shot_cooldown_ms |-> 300, speed_mul |-> 85, size_mul |-> 110,
      points_mul |-> 90,
      weights |-> << <<"static", 60>>, <<"moving", 30>>, <<"small", 10>> >>],
   Normal |->
     [spawn_interval |-> 60, spawn_interval_min |-> 20, max_ammo |-> 6,
      shot_cooldown_ms |-> 250, speed_mul |-> 100, size_mul |-> 100,
      points_mul |-> 100,
      weights |-> << <<"static", 50>>, <<"moving", 35>>, <<"small", 15>> >>],
   Hard |->
     [spawn_interval |-> 50, spawn_interval_min |-> 10, max_ammo |-> 5,
      shot_cooldown_ms |-> 220, speed_mul |-> 125, size_mul |-> 90,
      points_mul |-> 120,
      weights |-> << <<"static", 35>>, <<"moving", 45>>, <<"small", 20>> >>]]

\* What the audio setup of the constructor can end with: a mixer that
\* failed, one that works with a Sound for every cue, and one that works
\* with a Sound for the shot only.
AudioSetups == {<<FALSE, {}>>, <<TRUE, Cues>>, <<TRUE, {"shot"}>>}

(***************************************************************************)
(* Helpers.                                                                *)
(***************************************************************************)
Min(a, b) == IF a <= b THEN a ELSE b

\* max(lo, min(hi, v))
Clamp(lo, hi, v) == IF Min(hi, v) >= lo THEN Min(hi, v) ELSE lo

Max(a, b) == IF a >= b THEN a ELSE b

\* int(round(n / d)) for n >= 0, d > 0: Python rounds halves to even.
RoundDiv(n, d) ==
  LET q == n \div d
      r == n % d
  IN  IF 2 * r < d THEN q
      ELSE IF 2 * r > d THEN q + 1
      ELSE IF q % 2 = 0 THEN q ELSE q + 1

\* list.remove(t): the list without its first element equal to t.
RECURSIVE RemoveFirst(_, _)
RemoveFirst(seq, t) ==
  IF seq = << >> THEN << >>
  ELSE IF Head(seq) = t THEN Tail(seq)
  ELSE <<Head(seq)>> \o RemoveFirst(Tail(seq), t)

\* _play_sound(key): the request handed to the sound player is logged.
play_sound(s, key) == [s EXCEPT !.cues = Append(@, key)]

(***************************************************************************)
(* Target (targets.py).                                                    *)
(***************************************************************************)
TargetColor(ttype) ==
  IF ttype = "moving" THEN "yellow"
  ELSE IF ttype = "small" THEN "red" ELSE "green"

\* Mutant of Target: every type is worth the 10 points of a static target.
Target_static_points(x, y, ttype, speed_mul, size_mul, points_mul, vel) ==
  LET base_radius == IF ttype # "small" THEN 40 ELSE 20
  IN  [x |-> x, y |-> y, type |-> ttype,
       bounds |-> <<screen_width, screen_height>>,
       radius |-> Max(8, RoundDiv(base_radius * size_mul, 100)),
       color |-> TargetColor(ttype),
       points |-> RoundDiv(10 * points_mul, 100),
       vx |-> IF ttype = "moving" THEN vel[1] ELSE 0,
       vy |-> IF ttype = "moving" THEN vel[2] ELSE 0]

\* Target.__init__ as spawn_target calls it, with the screen as bounds;
\* vel is the velocity drawn for a moving target.
Target(x, y, ttype, speed_mul, size_mul, points_mul, vel) ==
  LET base_radius == IF ttype # "small" THEN 40 ELSE 20
      base_points == IF ttype = "moving" THEN 20
                     ELSE IF ttype = "small" THEN 30 ELSE 10
  IN  [x |-> x, y |-> y, type |-> ttype,
       bounds |-> <<screen_width, screen_height>>,
       radius |-> Max(8, RoundDiv(base_radius * size_mul, 100)),
       color |-> TargetColor(ttype),
       points |-> RoundDiv(base_points * points_mul, 100),
       vx |-> IF ttype = "moving" THEN vel[1] ELSE 0,
       vy |-> IF ttype = "moving" THEN vel[2] ELSE 0]

\* Mutant of update: a moving target moves on, whatever the edges.
update_through_edges(t) ==
  IF t.type # "moving" THEN t
  ELSE [t EXCEPT !.x = t.x + t.vx, !.y = t.y + t.vy]

\* Mutant of update: the position is clamped, the velocity is kept.
update_keeps_velocity(t) ==
  IF t.type # "moving" THEN t
  ELSE
    LET x == t.x + t.vx
        y == t.y + t.vy
        w == t.bounds[1]
        h == t.bounds[2]
        tx == IF x - t.radius < 0 THEN [t EXCEPT !.x = t.radius]
              ELSE IF x + t.radius > w THEN [t EXCEPT !.x = w - t.radius]
              ELSE [t EXCEPT !.x = x]
    IN  IF y - t.radius < 0 THEN [tx EXCEPT !.y = t.radius]
        ELSE IF y + t.radius > h THEN [tx EXCEPT !.y = h - t.radius]
        ELSE [tx EXCEPT !.y = y]

\* Target.update
update(t) ==
  IF t.type # "moving" THEN t
  ELSE
    LET x == t.x + t.vx
        y == t.y + t.vy
        w == t.bounds[1]
        h == t.bounds[2]
        tx == IF x - t.radius < 0
                THEN [t EXCEPT !.x = t.radius, !.vx = -t.vx]
              ELSE IF x + t.radius > w
                THEN [t EXCEPT !.x = w - t.radius, !.vx = -t.vx]
              ELSE [t EXCEPT !.x = x]
    IN  IF y - t.radius < 0
          THEN [tx EXCEPT !.y = t.radius, !.vy = -t.vy]
        ELSE IF y + t.radius > h
          THEN [tx EXCEPT !.y = h - t.radius, !.vy = -t.vy]
        ELSE [tx EXCEPT !.y = y]

\* Mutant of check_collision: the rim of the disc is a miss.
check_collision_open(t, pos) ==
  LET dx == t.x - pos[1]
      dy == t.y - pos[2]
  IN  (dx * dx + dy * dy) < (t.radius * t.radius)

\* Target.check_collision
check_collision(t, pos) ==
  LET dx == t.x - pos[1]
      dy == t.y - pos[2]
  IN  (dx * dx + dy * dy) <= (t.radius * t.radius)

(***************************************************************************)
(* MovementFilter (hand_tracker.py).  A filter is the record of its        *)
(* buffer_size and its buffer, oldest sample first.                        *)
(***************************************************************************)
\* seq[-n:] for n >= 1
LastN(seq, n) ==
  IF Len(seq) <= n THEN seq ELSE SubSeq(seq, Len(seq) - n + 1, Len(seq))

\* MovementFilter.__init__
MovementFilter(buffer_size) ==
  [buffer_size |-> Max(1, buffer_size), buffer |-> << >>]

\* Mutant of set_buffer_size: the oldest samples are the ones kept.
set_buffer_size_keeps_oldest(f, buffer_size) ==
  LET n == Max(1, buffer_size)
  IN  IF n = f.buffer_size THEN f
      ELSE [buffer_size |-> n,
            buffer |-> IF Len(f.buffer) <= n THEN f.buffer
                       ELSE SubSeq(f.buffer, 1, n)]

\* MovementFilter.set_buffer_size
set_buffer_size(f, buffer_size) ==
  LET n == Max(1, buffer_size)
  IN  IF n = f.buffer_size THEN f
      ELSE [buffer_size |-> n, buffer |-> LastN(f.buffer, n)]

\* MovementFilter.add_position: append to a deque of maxlen buffer_size.
add_position(f, pos) ==
  IF pos = << >> THEN f
  ELSE [f EXCEPT !.buffer =
          IF Len(@) = f.buffer_size THEN Append(Tail(@), pos)
          ELSE Append(@, pos)]

RECURSIVE SumAxis(_, _)
SumAxis(buffer, i) ==
  IF buffer = << >> THEN 0 ELSE Head(buffer)[i] + SumAxis(Tail(buffer), i)

\* MovementFilter.get_filtered_position
get_filtered_position(f) ==
  IF f.buffer = << >> THEN << >>
  ELSE <<RoundDiv(SumAxis(f.buffer, 1), Len(f.buffer)),
         RoundDiv(SumAxis(f.buffer, 2), Len(f.buffer))>>

(***************************************************************************)
(* Calibration (hand_tracker.py).  The sensitivity, a float in the code,   *)
(* is the fraction <<numerator, denominator>> here.                        *)
(***************************************************************************)
\* Calibration.__init__
Calibration == [sensitivity |-> <<1, 1>>, deadzone |-> 5]

\* Mutant of adjust_sensitivity: the ratio is stored unclamped.
adjust_sensitivity_unclamped(c, landmarks, height) ==
  IF landmarks = << >> THEN c
  ELSE [c EXCEPT !.sensitivity =
                   <<landmarks[1][2], Max(1, height \div 2)>>]

\* Calibration.adjust_sensitivity; its return value is the sensitivity of
\* the calibration it leaves.
adjust_sensitivity(c, landmarks, height) ==
  IF landmarks = << >> THEN c
  ELSE
    LET wrist_y == landmarks[1][2]
        base == Max(1, height \div 2)
    IN  [c EXCEPT !.sensitivity =
                    IF 2 * wrist_y <= base THEN <<1, 2>>
                    ELSE IF wrist_y >= 2 * base THEN <<2, 1>>
                    ELSE <<wrist_y, base>>]

(***************************************************************************)
(* MouseTracker (hand_tracker.py).                                         *)
(***************************************************************************)
\* MouseTracker.__init__
MouseTracker(width, height) ==
  [screen_width |-> width, screen_height |-> height]

\* Mutant of mouse_get_aim_position: the upper limits are width and height.
mouse_get_aim_position_wide(mt, raw) ==
  <<Max(0, Min(mt.screen_width, raw[1])),
    Max(0, Min(mt.screen_height, raw[2]))>>

\* MouseTracker.get_aim_position, raw the pair pygame.mouse.get_pos gives.
mouse_get_aim_position(mt, raw) ==
  <<Max(0, Min(mt.screen_width - 1, raw[1])),
    Max(0, Min(mt.screen_height - 1, raw[2]))>>

(***************************************************************************)
(* GameEngine (game_engine.py).                                            *)
(***************************************************************************)
\* Mutant of apply_difficulty: the magazine is not refilled.
apply_difficulty_keeps_ammo(s, level) ==
  LET cfg == IF level \in Levels THEN difficulty_levels[level]
             ELSE difficulty_levels["Normal"]
  IN  [s EXCEPT !.spawn_interval = cfg.spawn_interval,
                !.spawn_interval_min = cfg.spawn_interval_min,
                !.max_ammo = cfg.max_ammo,
                !.shot_cooldown_ms = cfg.shot_cooldown_ms,
                !.target_speed_mul = cfg.speed_mul,
                !.target_size_mul = cfg.size_mul,
                !.points_mul = cfg.points_mul,
                !.spawn_weights = cfg.weights]

\* Mutant of apply_difficulty: the shot cooldown of the old profile is kept.
apply_difficulty_keeps_cooldown(s, level) ==
  LET cfg == IF level \in Levels THEN difficulty_levels[level]
             ELSE difficulty_levels["Normal"]
  IN  [s EXCEPT !.spawn_interval = cfg.spawn_interval,
                !.spawn_interval_min = cfg.spawn_interval_min,
                !.max_ammo = cfg.max_ammo,
                !.ammo = cfg.max_ammo,
                !.target_speed_mul = cfg.speed_mul,
                !.target_size_mul = cfg.size_mul,
                !.points_mul = cfg.points_mul,
                !.spawn_weights = cfg.weights]

\* Mutant of apply_difficulty: a name outside the table is left unapplied.
apply_difficulty_known_only(s, level) ==
  IF level \notin Levels THEN s
  ELSE LET cfg == difficulty_levels[level]
       IN  [s EXCEPT !.spawn_interval = cfg.spawn_interval,
                     !.spawn_interval_min = cfg.spawn_interval_min,
                     !.max_ammo = cfg.max_ammo,
                     !.ammo = cfg.max_ammo,
                     !.shot_cooldown_ms = cfg.shot_cooldown_ms,
                     !.target_speed_mul = cfg.speed_mul,
                     !.target_size_mul = cfg.size_mul,
                     !.points_mul = cfg.points_mul,
                     !.spawn_weights = cfg.weights]

\* _apply_difficulty: an unknown level falls back to the Normal profile.
apply_difficulty(s, level) ==
  LET cfg == IF level \in Levels THEN difficulty_levels[level]
             ELSE difficulty_levels["Normal"]
  IN  [s EXCEPT !.spawn_interval = cfg.spawn_interval,
                !.spawn_interval_min = cfg.spawn_interval_min,
                !.max_ammo = cfg.max_ammo,
                !.ammo = cfg.max_ammo,
                !.shot_cooldown_ms = cfg.shot_cooldown_ms,
                !.target_speed_mul = cfg.speed_mul,
                !.target_size_mul = cfg.size_mul,
                !.points_mul = cfg.points_mul,
                !.spawn_weights = cfg.weights]

\* The volume _apply_volume hands to set_volume for cue k, in tenths of a
\* pixel of the volume bar.
cue_volume(s, k) ==
  IF s.muted THEN 0
  ELSE Clamp(0, 10 * VolumeOne, s.master_volume * sound_volumes[k])

\* _apply_volume.  sounds[k] is << >> for a cue without a Sound object and
\* <<v>> for a Sound whose volume is v.
apply_volume(s) ==
  IF ~s.audio_enabled THEN s
  ELSE [s EXCEPT !.sounds =
          [k \in Cues |->
             IF s.sounds[k] = << >> THEN << >> ELSE <<cue_volume(s, k)>>]]

\* Mutant of change_volume: the sum is stored unclamped.
change_volume_unclamped(s, delta) ==
  apply_volume([s EXCEPT !.master_volume = @ + delta])

\* _change_volume
change_volume(s, delta) ==
  apply_volume([s EXCEPT !.master_volume = Clamp(0, VolumeOne, @ + delta)])

\* _toggle_mute
toggle_mute(s) == apply_volume([s EXCEPT !.muted = ~@])

\* _init_audio with _load_sound and _ensure_fallback_sounds: mixer_ok tells
\* whether pygame.mixer.init succeeded, available the cues that a file or
\* the synthesis gave a Sound (of volume 1.0) for.
init_audio(s, mixer_ok, available) ==
  apply_volume(
    [s EXCEPT !.audio_enabled = mixer_ok,
              !.sounds = [k \in Cues |->
                            IF mixer_ok /\ k \in available
                            THEN <<10 * VolumeOne>> ELSE << >>]])

\* GameEngine.__init__
GameEngine(mixer_ok, available) ==
  apply_difficulty(
    init_audio(
      [running |-> TRUE, paused |-> FALSE, score |-> 0,
       max_ammo |-> 6, ammo |-> 6, reloading |-> FALSE,
       reload_started_at |-> 0,
       targets |-> << >>, spawn_interval |-> 60, spawn_interval_min |-> 20,
       last_shot_time |-> 0, shot_cooldown_ms |-> 250,
       shoot_key_held |-> FALSE,
       reload_gesture_active |-> FALSE, pause_gesture_active |-> FALSE,
       spawn_timer |-> 0, start_time |-> StartMs,
       explosions |-> << >>, muzzle_flashes |-> << >>,
       shockwaves |-> << >>, tracers |-> << >>,
       no_ammo_msg_end_ms |-> 0,
       audio_enabled |-> FALSE,
       sounds |-> [k \in Cues |-> << >>],
       master_volume |-> InitialVolume, muted |-> FALSE,
       show_options |-> FALSE, options_dragging_volume |-> FALSE,
       options_paused_prev |-> FALSE,
       difficulty |-> "Normal",
       target_speed_mul |-> 100, target_size_mul |-> 100,
       points_mul |-> 100,
       spawn_weights |-> difficulty_levels["Normal"].weights,
       cues |-> << >>],
      mixer_ok, available),
    "Normal")

\* The engine of a machine whose mixer works and gives every cue a Sound.
InitEngine == GameEngine(TRUE, Cues)

\* _weighted_choice, r the draw of random.random() in hundredths.
RECURSIVE weighted_walk(_, _, _)
weighted_walk(items, r, acc) ==
  IF items = << >> THEN ""
  ELSE LET acc2 == acc + Head(items)[2]
       IN  IF r <= acc2 THEN Head(items)[1]
           ELSE weighted_walk(Tail(items), r, acc2)

\* Mutant of weighted_choice: the walk is skipped, the last entry returned.
weighted_choice_last(s, r) == s.spawn_weights[Len(s.spawn_weights)][1]

weighted_choice(s, r) ==
  LET name == weighted_walk(s.spawn_weights, r, 0)
  IN  IF name # "" THEN name
      ELSE s.spawn_weights[Len(s.spawn_weights)][1]

\* spawn_target, with its random draws: r, the position and the velocity.
spawn_target(s, r, pos, vel) ==
  [s EXCEPT !.targets =
     Append(@, Target(pos[1], pos[2], weighted_choice(s, r),
                      s.target_speed_mul, s.target_size_mul, s.points_mul,
                      vel))]

\* _spawn_explosion: 18 particles at (x, y), lives[i] the life drawn for
\* particle i.  The drawn velocity and radius of a particle only feed the
\* renderer and are left out.
spawn_explosion(s, x, y, color, lives) ==
  [s EXCEPT !.explosions =
     Append(@, [particles |->
       [i \in 1..NumParticles |->
          [x |-> x, y |-> y, life |-> lives[i], max_life |-> lives[i],
           color |-> color]]])]

\* _spawn_shockwave (r and max_r in thousandths of a pixel)
spawn_shockwave(s, x, y, color) ==
  [s EXCEPT !.shockwaves =
     Append(@, [x |-> x, y |-> y, r |-> 8000, max_r |-> 90000, life |-> 350,
                max_life |-> 350, color |-> color])]

\* _spawn_tracer
spawn_tracer(s, start, end) ==
  [s EXCEPT !.tracers =
     Append(@, [start |-> start, end |-> end, life |-> 120,
                max_life |-> 120])]

\* Mutant of spawn_muzzle_flash: a flash is stored for an absent aim point.
spawn_muzzle_flash_always(s, pos, t) ==
  [s EXCEPT !.muzzle_flashes =
     Append(@, [pos |-> pos, end |-> t + MuzzleFlashMs])]

\* _spawn_muzzle_flash, t the clock read by the call.
spawn_muzzle_flash(s, pos, t) ==
  IF pos = << >> THEN s
  ELSE [s EXCEPT !.muzzle_flashes =
          Append(@, [pos |-> pos, end |-> t + MuzzleFlashMs])]

\* Mutant of hit_target: the target is scored but stays in the live set.
hit_target_keeps_target(s, t, aim_pos, lives) ==
  LET s1 == [s EXCEPT !.score = @ + t.points]
      s2 == spawn_explosion(s1, t.x, t.y, t.color, lives)
      s3 == play_sound(s2, "hit")
      s4 == spawn_shockwave(s3, t.x, t.y, t.color)
  IN  spawn_tracer(s4, aim_pos, <<t.x, t.y>>)

\* Mutant of hit_target: the points of the target are taken off the score.
hit_target_subtracts(s, t, aim_pos, lives) ==
  LET s1 == [s EXCEPT !.score = @ - t.points,
                      !.targets = RemoveFirst(@, t)]
      s2 == spawn_explosion(s1, t.x, t.y, t.color, lives)
      s3 == play_sound(s2, "hit")
      s4 == spawn_shockwave(s3, t.x, t.y, t.color)
  IN  spawn_tracer(s4, aim_pos, <<t.x, t.y>>)

\* The body of the loop of check_hit for one colliding target t.
hit_target(s, t, aim_pos, lives) ==
  LET s1 == [s EXCEPT !.score = @ + t.points,
                      !.targets = RemoveFirst(@, t)]
      s2 == spawn_explosion(s1, t.x, t.y, t.color, lives)
      s3 == play_sound(s2, "hit")
      s4 == spawn_shockwave(s3, t.x, t.y, t.color)
  IN  spawn_tracer(s4, aim_pos, <<t.x, t.y>>)

\* Mutant of check_hit_loop: the loop stops at the first colliding target.
RECURSIVE check_hit_first_match(_, _, _, _)
check_hit_first_match(s, copy, aim_pos, lives) ==
  IF copy = << >> THEN s
  ELSE LET t == Head(copy)
       IN  IF check_collision(t, aim_pos)
           THEN hit_target(s, t, aim_pos, lives)
           ELSE check_hit_first_match(s, Tail(copy), aim_pos, lives)

\* The loop of check_hit over the copy of the target list taken at entry.
RECURSIVE check_hit_loop(_, _, _, _)
check_hit_loop(s, copy, aim_pos, lives) ==
  IF copy = << >> THEN s
  ELSE LET t == Head(copy)
       IN  IF check_collision(t, aim_pos)
           THEN check_hit_loop(hit_target(s, t, aim_pos, lives), Tail(copy),
                               aim_pos, lives)
           ELSE check_hit_loop(s, Tail(copy), aim_pos, lives)

\* check_hit
check_hit(s, aim_pos, lives) ==
  IF aim_pos = << >> THEN s
  ELSE check_hit_loop(s, s.targets, aim_pos, lives)

\* _update_explosions: every particle ages by dt_ms, dead particles and
\* explosions left without particles are dropped.
\* Mutant of update_explosions: an explosion stays when its last particle
\* has gone.
update_explosions_keeps_empty(s, dt_ms) ==
  LET Aged(ex) ==
        [particles |->
           SelectSeq([i \in 1..Len(ex.particles) |->
                        [ex.particles[i] EXCEPT !.life = @ - dt_ms]],
                     LAMBDA p : p.life > 0)]
  IN  [s EXCEPT !.explosions =
         [i \in 1..Len(s.explosions) |-> Aged(s.explosions[i])]]

update_explosions(s, dt_ms) ==
  LET Aged(ex) ==
        [particles |->
           SelectSeq([i \in 1..Len(ex.particles) |->
                        [ex.particles[i] EXCEPT !.life = @ - dt_ms]],
                     LAMBDA p : p.life > 0)]
      aged == [i \in 1..Len(s.explosions) |-> Aged(s.explosions[i])]
  IN  [s EXCEPT !.explosions =
         SelectSeq(aged, LAMBDA ex : ex.particles # << >>)]

\* _update_muzzle_flashes, t the clock read by the call.
update_muzzle_flashes(s, t) ==
  [s EXCEPT !.muzzle_flashes = SelectSeq(@, LAMBDA m : m.end > t)]

\* _update_shockwaves: the radius grows by 180 px per second, kept here in
\* thousandths of a pixel so that 180 * dt_ms / 1000 stays an integer.
update_shockwaves(s, dt_ms) ==
  LET aged == [i \in 1..Len(s.shockwaves) |->
                 [s.shockwaves[i] EXCEPT !.r = @ + 180 * dt_ms,
                                         !.life = @ - dt_ms]]
  IN  [s EXCEPT !.shockwaves =
         SelectSeq(aged, LAMBDA w : ~(w.r >= w.max_r \/ w.life <= 0))]

\* _update_tracers
update_tracers(s, dt_ms) ==
  LET aged == [i \in 1..Len(s.tracers) |->
                 [s.tracers[i] EXCEPT !.life = @ - dt_ms]]
  IN  [s EXCEPT !.tracers = SelectSeq(aged, LAMBDA t : ~(t.life <= 0))]

\* The effect updates of one loop iteration (run).
update_effects(s, dt_ms, t) ==
  update_tracers(
    update_shockwaves(
      update_muzzle_flashes(update_explosions(s, dt_ms), t), dt_ms), dt_ms)

\* _toggle_pause
toggle_pause(s) == [s EXCEPT !.paused = ~@]

\* Mutant of start_reload: a request restarts a reload in progress.
start_reload_restarts(s, t) ==
  IF s.ammo < s.max_ammo
  THEN [s EXCEPT !.reloading = TRUE, !.reload_started_at = t]
  ELSE s

\* _start_reload, t the clock read by the call.
start_reload(s, t) ==
  IF ~s.reloading /\ s.ammo < s.max_ammo
  THEN [s EXCEPT !.reloading = TRUE, !.reload_started_at = t]
  ELSE s

\* Mutant of update_reload: the reload needs more than reload_time_ms.
update_reload_strict(s, t) ==
  IF s.reloading /\ t - s.reload_started_at > reload_time_ms
  THEN play_sound([s EXCEPT !.reloading = FALSE, !.ammo = s.max_ammo],
                  "reload")
  ELSE s

\* _update_reload, t the clock read by the call.
\* Mutant of update_reload: a paused game does not advance its reload.
update_reload_unless_paused(s, t) ==
  IF s.paused THEN s
  ELSE IF s.reloading /\ t - s.reload_started_at >= reload_time_ms
  THEN play_sound([s EXCEPT !.reloading = FALSE, !.ammo = s.max_ammo],
                  "reload")
  ELSE s

update_reload(s, t) ==
  IF s.reloading /\ t - s.reload_started_at >= reload_time_ms
  THEN play_sound([s EXCEPT !.reloading = FALSE, !.ammo = s.max_ammo],
                  "reload")
  ELSE s

\* _can_shoot, t the clock read by the call.
can_shoot(s, t) ==
  IF s.paused THEN FALSE
  ELSE IF s.reloading THEN FALSE
  ELSE IF s.ammo <= 0 THEN FALSE
  ELSE IF t - s.last_shot_time < s.shot_cooldown_ms THEN FALSE
  ELSE TRUE

\* The statements of _shoot behind its guard, t the clock read by the call.
\* Mutant of fire: the shot takes no round.
fire_keeps_ammo(s, aim_pos, t, lives) ==
  LET s1 == [s EXCEPT !.last_shot_time = t]
      s2 == spawn_muzzle_flash(s1, aim_pos, t)
      s3 == play_sound(s2, "shot")
  IN  check_hit(s3, aim_pos, lives)

fire(s, aim_pos, t, lives) ==
  LET s1 == [s EXCEPT !.last_shot_time = t, !.ammo = @ - 1]
      s2 == spawn_muzzle_flash(s1, aim_pos, t)
      s3 == play_sound(s2, "shot")
  IN  check_hit(s3, aim_pos, lives)

\* _shoot, t the clock read by the call.
shoot(s, aim_pos, t, lives) ==
  IF ~can_shoot(s, t) THEN s ELSE fire(s, aim_pos, t, lives)

\* Mutant of try_shoot: the firing statements run without the cooldown test.
try_shoot_no_cooldown(s, aim_pos, t, lives) ==
  IF s.paused \/ s.reloading THEN s
  ELSE IF s.ammo <= 0
       THEN [play_sound(s, "dry") EXCEPT
               !.no_ammo_msg_end_ms = t + NoAmmoMsgMs]
  ELSE fire(s, aim_pos, t, lives)

\* Mutant of try_shoot: the cooldown is tested before the ammunition.
try_shoot_cooldown_first(s, aim_pos, t, lives) ==
  IF s.paused \/ s.reloading THEN s
  ELSE IF t - s.last_shot_time < s.shot_cooldown_ms THEN s
  ELSE IF s.ammo <= 0
       THEN [play_sound(s, "dry") EXCEPT
               !.no_ammo_msg_end_ms = t + NoAmmoMsgMs]
  ELSE shoot(s, aim_pos, t, lives)

\* Mutant of try_shoot: a dry fire plays its cue but arms no message.
try_shoot_dry_no_msg(s, aim_pos, t, lives) ==
  IF s.paused \/ s.reloading THEN s
  ELSE IF s.ammo <= 0 THEN play_sound(s, "dry")
  ELSE IF t - s.last_shot_time < s.shot_cooldown_ms THEN s
  ELSE shoot(s, aim_pos, t, lives)

\* Mutant of try_shoot: a reload in progress does not stop the attempt.
try_shoot_ignores_reload(s, aim_pos, t, lives) ==
  IF s.paused THEN s
  ELSE IF s.ammo <= 0
       THEN [play_sound(s, "dry") EXCEPT
               !.no_ammo_msg_end_ms = t + NoAmmoMsgMs]
  ELSE IF t - s.last_shot_time < s.shot_cooldown_ms THEN s
  ELSE shoot(s, aim_pos, t, lives)

\* _try_shoot, t the clock read by the call.
try_shoot(s, aim_pos, t, lives) ==
  IF s.paused \/ s.reloading THEN s
  ELSE IF s.ammo <= 0
       THEN [play_sound(s, "dry") EXCEPT
               !.no_ammo_msg_end_ms = t + NoAmmoMsgMs]
  ELSE IF t - s.last_shot_time < s.shot_cooldown_ms THEN s
  ELSE shoot(s, aim_pos, t, lives)

\* pygame.Rect(x, y, w, h) and Rect.collidepoint
Rect(x, y, w, h) == [x |-> x, y |-> y, width |-> w, height |-> h]

collidepoint(r, mx, my) ==
  /\ r.x <= mx /\ mx < r.x + r.width
  /\ r.y <= my /\ my < r.y + r.height

\* _options_layout: the rectangles of the overlay that events are tested
\* against.
options_layout ==
  LET panel_w == 640
      panel_h == 360
      px == (screen_width - panel_w) \div 2
      py == (screen_height - panel_h) \div 2
      bar_x == px + 140
      bar_y == py + 110
  IN  [mute_btn       |-> Rect(px + 20, py + 110, 100, 32),
       vol_bar        |-> Rect(bar_x, bar_y, VolumeOne, 16),
       preview_shot   |-> Rect(px + 20, py + 180, 120, 36),
       preview_hit    |-> Rect(px + 170, py + 180, 120, 36),
       preview_reload |-> Rect(px + 320, py + 180, 120, 36),
       preview_dry    |-> Rect(px + 470, py + 180, 120, 36),
       resume_btn     |-> Rect(px + panel_w - 160, py + panel_h - 56, 140, 40)]

\* Mutant of toggle_options: closing the overlay always resumes the game.
toggle_options_resumes(s) ==
  IF ~s.show_options
  THEN [s EXCEPT !.options_paused_prev = s.paused,
                 !.show_options = TRUE,
                 !.paused = TRUE,
                 !.options_dragging_volume = FALSE]
  ELSE [s EXCEPT !.show_options = FALSE,
                 !.paused = FALSE,
                 !.options_dragging_volume = FALSE]

\* _toggle_options
toggle_options(s) ==
  IF ~s.show_options
  THEN [s EXCEPT !.options_paused_prev = s.paused,
                 !.show_options = TRUE,
                 !.paused = TRUE,
                 !.options_dragging_volume = FALSE]
  ELSE [s EXCEPT !.show_options = FALSE,
                 !.paused = s.options_paused_prev,
                 !.options_dragging_volume = FALSE]

\* The volume of a pointer at abscissa mx over the bar:
\* frac = (mx - bar.x) / bar.width, clamped, then _apply_volume.
volume_from_bar(s, mx) ==
  apply_volume(
    [s EXCEPT !.master_volume =
                Clamp(0, VolumeOne, mx - options_layout.vol_bar.x)])

\* _handle_options_event.  An event is a record of its type, key, button
\* and pos.
handle_options_event(s, event) ==
  LET layout == options_layout
      mx == event.pos[1]
      my == event.pos[2]
  IN
  IF event.type = "KEYDOWN" THEN
    IF event.key \in {"ESCAPE", "o"} THEN toggle_options(s)
    ELSE IF event.key = "m" THEN toggle_mute(s)
    ELSE IF event.key \in {"MINUS", "KP_MINUS"}
      THEN change_volume(s, -VolumeStep)
    ELSE IF event.key \in {"EQUALS", "KP_PLUS"}
      THEN change_volume(s, VolumeStep)
    ELSE IF event.key = "1" THEN play_sound(s, "shot")
    ELSE IF event.key = "2" THEN play_sound(s, "hit")
    ELSE IF event.key = "3" THEN play_sound(s, "reload")
    ELSE IF event.key = "4" THEN play_sound(s, "dry")
    ELSE s
  ELSE IF event.type = "MOUSEBUTTONDOWN" /\ event.button = 1 THEN
    IF collidepoint(layout.resume_btn, mx, my) THEN toggle_options(s)
    ELSE IF collidepoint(layout.mute_btn, mx, my) THEN toggle_mute(s)
    ELSE IF collidepoint(layout.preview_shot, mx, my)
      THEN play_sound(s, "shot")
    ELSE IF collidepoint(layout.preview_hit, mx, my)
      THEN play_sound(s, "hit")
    ELSE IF collidepoint(layout.preview_reload, mx, my)
      THEN play_sound(s, "reload")
    ELSE IF collidepoint(layout.preview_dry, mx, my)
      THEN play_sound(s, "dry")
    ELSE IF collidepoint(layout.vol_bar, mx, my)
      THEN [volume_from_bar(s, mx) EXCEPT !.options_dragging_volume = TRUE]
    ELSE s
  ELSE IF event.type = "MOUSEBUTTONUP" /\ event.button = 1
    THEN [s EXCEPT !.options_dragging_volume = FALSE]
  ELSE IF event.type = "MOUSEMOTION" /\ s.options_dragging_volume
    THEN volume_from_bar(s, mx)
  ELSE s

\* The gameplay branch of the loop body of _handle_events, t the clock read
\* by _start_reload.
handle_game_event(s, event, t) ==
  IF event.type = "QUIT" THEN [s EXCEPT !.running = FALSE]
  ELSE IF event.type = "KEYDOWN" THEN
    IF event.key = "ESCAPE" THEN [s EXCEPT !.running = FALSE]
    ELSE IF event.key = "p" THEN toggle_pause(s)
    ELSE IF event.key = "o" THEN toggle_options(s)
    ELSE IF event.key = "r" THEN start_reload(s, t)
    ELSE IF event.key = "1"
      THEN apply_difficulty([s EXCEPT !.difficulty = "Easy"], "Easy")
    ELSE IF event.key = "2"
      THEN apply_difficulty([s EXCEPT !.difficulty = "Normal"], "Normal")
    ELSE IF event.key = "3"
      THEN apply_difficulty([s EXCEPT !.difficulty = "Hard"], "Hard")
    ELSE IF event.key = "m" THEN toggle_mute(s)
    ELSE IF event.key \in {"MINUS", "KP_MINUS"}
      THEN change_volume(s, -VolumeStep)
    ELSE IF event.key \in {"EQUALS", "KP_PLUS"}
      THEN change_volume(s, VolumeStep)
    ELSE IF event.key = "SPACE" THEN [s EXCEPT !.shoot_key_held = TRUE]
    ELSE s
  ELSE IF event.type = "KEYUP" /\ event.key = "SPACE"
    THEN [s EXCEPT !.shoot_key_held = FALSE]
  ELSE s

\* Mutant of handle_event: the gameplay handler also sees the events of an
\* open overlay.
handle_event_unrouted(s, event, t) ==
  IF s.show_options
  THEN handle_game_event(handle_options_event(s, event), event, t)
  ELSE handle_game_event(s, event, t)

\* The loop body of _handle_events for one event: an open overlay takes
\* the event, whatever it is.
handle_event(s, event, t) ==
  IF s.show_options THEN handle_options_event(s, event)
  ELSE handle_game_event(s, event, t)

\* _handle_events: the events of the queue, one after the other.
RECURSIVE handle_events(_, _, _)
handle_events(s, events, t) ==
  IF events = << >> THEN s
  ELSE handle_events(handle_event(s, Head(events), t), Tail(events), t)

\* Mutant of maybe_increase_difficulty: the interval is left as it is.
maybe_increase_difficulty_never(s, t) == s

\* _maybe_increase_difficulty, t the clock in ms: elapsed // 20 counts the
\* whole periods of 20 s since start_time.
maybe_increase_difficulty(s, t) ==
  LET step == (t - s.start_time) \div 20000
      target_interval == Max(s.spawn_interval_min, 60 - step * 5)
  IN  [s EXCEPT !.spawn_interval = target_interval]

\* The gestures of a loop iteration in which the tracker gave no landmarks.
NoGestures == [shoot |-> FALSE, reload |-> FALSE, pause |-> FALSE]

\* The gestures of a loop iteration (run): detect_gestures is only asked
\* when get_hand_landmarks gave landmarks.
\* Mutant of gestures_of: the gestures are taken without landmarks too.
gestures_of_detected(landmarks, detected) == detected

gestures_of(landmarks, detected) ==
  IF landmarks THEN detected ELSE NoGestures

\* Mutant of pause_gesture: the gesture toggles pause as long as it lasts.
pause_gesture_level(s, gestures) ==
  IF gestures.pause
  THEN [toggle_pause(s) EXCEPT !.pause_gesture_active = TRUE]
  ELSE [s EXCEPT !.pause_gesture_active = FALSE]

\* The edge handling of the pause gesture (run).
pause_gesture(s, gestures) ==
  IF gestures.pause
  THEN IF ~s.pause_gesture_active
       THEN [toggle_pause(s) EXCEPT !.pause_gesture_active = TRUE]
       ELSE s
  ELSE [s EXCEPT !.pause_gesture_active = FALSE]

\* The edge handling of the reload gesture (run).
reload_gesture(s, gestures, t) ==
  IF gestures.reload
  THEN IF ~s.reload_gesture_active
       THEN [start_reload(s, t) EXCEPT !.reload_gesture_active = TRUE]
       ELSE s
  ELSE [s EXCEPT !.reload_gesture_active = FALSE]

\* The shoot gesture and the held shoot key (run): one attempt for each.
shoot_inputs(s, gestures, aim_pos, t, lives) ==
  LET s1 == IF gestures.shoot THEN try_shoot(s, aim_pos, t, lives) ELSE s
  IN  IF s1.shoot_key_held THEN try_shoot(s1, aim_pos, t, lives) ELSE s1

\* Mutant of spawn_and_move: the pause flag is not looked at.
spawn_and_move_paused_too(s, t, r, pos, vel) ==
  LET s1 == [s EXCEPT !.spawn_timer = @ + 1]
      s2 == IF s1.spawn_timer >= s1.spawn_interval
            THEN maybe_increase_difficulty(
                   [spawn_target(s1, r, pos, vel) EXCEPT !.spawn_timer = 0],
                   t)
            ELSE s1
  IN  [s2 EXCEPT !.targets = [i \in DOMAIN @ |-> update(@[i])]]

\* The spawn timer, the spawn with its escalation and the target updates
\* of a loop iteration (run), r, pos and vel the draws of a spawn.
spawn_and_move(s, t, r, pos, vel) ==
  IF s.paused THEN s
  ELSE
    LET s1 == [s EXCEPT !.spawn_timer = @ + 1]
        s2 == IF s1.spawn_timer >= s1.spawn_interval
              THEN maybe_increase_difficulty(
                     [spawn_target(s1, r, pos, vel)
                        EXCEPT !.spawn_timer = 0], t)
              ELSE s1
    IN  [s2 EXCEPT !.targets = [i \in DOMAIN @ |-> update(@[i])]]

\* Mutant of run_iteration: the shoot inputs are resolved before the pause
\* and reload gestures.
run_iteration_shoot_first(s, in, t) ==
  LET gestures == gestures_of(in.landmarks, in.detected)
      s1 == handle_events(s, in.events, t)
      s2 == shoot_inputs(s1, gestures, in.aim_pos, t, in.lives)
      s3 == pause_gesture(s2, gestures)
      s4 == reload_gesture(s3, gestures, t)
      s5 == update_reload(s4, t)
      s6 == spawn_and_move(s5, t, in.r, in.pos, in.vel)
  IN  update_effects(s6, in.dt_ms, t)

\* One iteration of the loop of run, from clock.tick to the effect
\* updates.  in holds what the iteration reads from outside: dt_ms of
\* clock.tick, the events of the queue, whether the tracker gave landmarks,
\* the gestures detect_gestures finds in them (detected), the aim position
\* and the random draws of a spawn (r, pos, vel) and of explosions (lives);
\* t is the clock.
run_iteration(s, in, t) ==
  LET gestures == gestures_of(in.landmarks, in.detected)
      s1 == handle_events(s, in.events, t)
      s2 == pause_gesture(s1, gestures)
      s3 == reload_gesture(s2, gestures, t)
      s4 == shoot_inputs(s3, gestures, in.aim_pos, t, in.lives)
      s5 == update_reload(s4, t)
      s6 == spawn_and_move(s5, t, in.r, in.pos, in.vel)
  IN  update_effects(s6, in.dt_ms, t)

(***************************************************************************)
(* main (main.py).  The state of main is the record of the tracker it      *)
(* holds ("none", "hand" or "mouse"), whether HandTracker() raised,        *)
(* whether run was called, whether an exception reached the handler of     *)
(* main, and the number of calls of tracker.shutdown().                    *)
(***************************************************************************)
\* Mutant of main_finally: the tracker is shut down after a clean run only.
main_finally_after_clean_run(m) ==
  IF m.tracker # "none" /\ ~m.raised
  THEN [m EXCEPT !.shutdowns = @ + 1] ELSE m

\* The finally block of main.
main_finally(m) ==
  IF m.tracker # "none" THEN [m EXCEPT !.shutdowns = @ + 1] ELSE m

(***************************************************************************)
(* The state machine.  A call is instantaneous at the resolution of the    *)
(* model's clock: every read of the clock inside one call returns now.     *)
(* last names the call that led to the state and the aim point it got.     *)
(***************************************************************************)
\* The engine at the start of a call: the cue log starts empty.
Fresh == [eng EXCEPT !.cues = << >>]

Init ==
  /\ eng = InitEngine
  /\ now = StartMs
  /\ last = [op |-> "init", aim |-> << >>]

\* The end of one loop iteration and the start of the next (run): the
\* effect updates with the iteration's dt_ms, then clock.tick lets d ms pass.
Frame(deltas) ==
  \E dt_ms \in deltas, d \in deltas :
    /\ now + d <= StartMs + Horizon
    /\ eng' = update_effects(Fresh, dt_ms, now)
    /\ now' = now + d
    /\ last' = [op |-> "update_effects", aim |-> << >>]

\* A shoot attempt (the shoot gesture or the held shoot key, run) with an
\* aim point of aims.
ShootAttempt(aims) ==
  \E aim \in aims, lives \in ParticleLives :
    /\ eng' = try_shoot(Fresh, aim, now, lives)
    /\ last' = [op |-> "try_shoot", aim |-> aim]
    /\ UNCHANGED now

\* Spec aims at the one spot where it spawns its target, or nowhere.
TryShoot == ShootAttempt({<< >>, <<100, 100>>})

ShootAny == ShootAttempt(Aims)

\* A reload request (the R key or the reload gesture).
StartReload ==
  /\ eng' = start_reload(Fresh, now)
  /\ last' = [op |-> "start_reload", aim |-> << >>]
  /\ UNCHANGED now

\* The reload update of one loop iteration.
UpdateReload ==
  /\ eng' = update_reload(Fresh, now)
  /\ last' = [op |-> "update_reload", aim |-> << >>]
  /\ UNCHANGED now

\* The keys 1, 2, 3 of _handle_events select a difficulty.
SelectDifficulty ==
  \E level \in Levels :
    /\ eng' = apply_difficulty([Fresh EXCEPT !.difficulty = level], level)
    /\ last' = [op |-> "apply_difficulty", aim |-> << >>]
    /\ UNCHANGED now

\* The P key of _handle_events or the pause gesture.
TogglePause ==
  /\ eng' = toggle_pause(Fresh)
  /\ last' = [op |-> "toggle_pause", aim |-> << >>]
  /\ UNCHANGED now

\* The spawn of one loop iteration, its draws taken from draws and points.
Spawn(draws, points, limit) ==
  \E r \in draws, pos \in points, vel \in Velocities :
    /\ Len(eng.targets) < limit
    /\ eng.score < MaxScore
    /\ eng' = spawn_target(Fresh, r, pos, vel)
    /\ last' = [op |-> "spawn_target", aim |-> << >>]
    /\ UNCHANGED now

SpawnTarget == Spawn(RandomDraws, SpawnPoints, MaxTargets)

\* Spec follows the ammunition and reload state machine through time, with
\* one kind of target to shoot at.
SpawnStatic == Spawn({10}, {<<100, 100>>}, 1)

NextFrame == Frame(Deltas)

Next ==
  \/ NextFrame
  \/ TryShoot
  \/ StartReload
  \/ UpdateReload
  \/ SelectDifficulty
  \/ TogglePause
  \/ SpawnStatic

Spec == Init /\ [][Next]_vars

\* SpecHit follows hit resolution over every kind and layout of targets of
\* the Normal profile, with the reload machine and the pause left alone.
LongFrame == Frame({1200})

NextHit ==
  \/ LongFrame
  \/ ShootAny
  \/ SpawnTarget

SpecHit == Init /\ [][NextHit]_vars

\* SpecDifficulty follows the difficulty profiles: the keys 1, 2, 3 and
\* direct calls of _apply_difficulty with any name (as tests/test_engine.py
\* calls it), between blind shots, reloads and frames.
ApplyDifficultyByName ==
  \E level \in Levels \cup UnknownLevels :
    /\ eng' = apply_difficulty(Fresh, level)
    /\ last' = [op |-> "apply_difficulty_by_name", aim |-> << >>,
                level |-> level]
    /\ UNCHANGED now

TryShootBlind == ShootAttempt({<< >>})

NextDifficulty ==
  \/ SelectDifficulty
  \/ ApplyDifficultyByName
  \/ TryShootBlind
  \/ StartReload
  \/ UpdateReload
  \/ LongFrame

SpecDifficulty == Init /\ [][NextDifficulty]_vars

\* SpecOptions follows the event queue, the options overlay and the audio
\* settings while the main loop runs, with the pause gesture and blind
\* shots of the loop body between the events.
InitOptions ==
  /\ \E a \in AudioSetups : eng = GameEngine(a[1], a[2])
  /\ now = StartMs
  /\ last = [op |-> "init", aim |-> << >>]

\* One event of the queue of _handle_events.
HandleEvent ==
  \E event \in Events :
    /\ eng.running
    /\ eng' = handle_event(Fresh, event, now)
    /\ last' = [op |-> "handle_event", aim |-> << >>]
    /\ UNCHANGED now

\* The pause gesture of the loop body: it is looked at whether the overlay
\* is open or not.
GesturePause == eng.running /\ TogglePause

GestureShoot == eng.running /\ TryShootBlind

NextOptions ==
  \/ HandleEvent
  \/ GesturePause
  \/ GestureShoot

SpecOptions == InitOptions /\ [][NextOptions]_vars

\* SpecTarget follows one target on its own: Target.update frame after
\* frame and Target.check_collision against points around it.  last holds
\* the target, the target before the call, the result of check_collision
\* and the number of updates so far.
InitTarget ==
  /\ eng = InitEngine
  /\ now = StartMs
  /\ \E x \in StartXs, y \in StartYs, ttype \in TargetTypes,
        size_mul \in SizeMuls, vel \in BounceVelocities :
       LET t == Target(x, y, ttype, 100, size_mul, 100, vel)
       IN  last = [op |-> "Target", aim |-> << >>, target |-> t,
                   before |-> t, result |-> FALSE, updates |-> 0]

UpdateTarget ==
  /\ last.updates < MaxUpdates
  /\ last' = [last EXCEPT !.op = "update", !.aim = << >>,
                          !.target = update(last.target),
                          !.before = last.target,
                          !.result = FALSE,
                          !.updates = @ + 1]
  /\ UNCHANGED <<eng, now>>

CheckCollision ==
  \E d \in AimOffsets(last.target.radius) :
    LET pos == <<last.target.x + d[1], last.target.y + d[2]>>
    IN  /\ last' = [last EXCEPT !.op = "check_collision", !.aim = pos,
                                !.before = last.target,
                                !.result = check_collision(last.target, pos)]
        /\ UNCHANGED <<eng, now>>

NextTarget ==
  \/ UpdateTarget
  \/ CheckCollision

SpecTarget == InitTarget /\ [][NextTarget]_vars

\* SpecFilter follows one MovementFilter of window 3 under its three
\* methods.  last holds the filter, the filter before the call, the
\* argument of the call (aim for a position, n for a size), the result
\* of get_filtered_position and the positions added so far.
InitFilter ==
  /\ eng = InitEngine
  /\ now = StartMs
  /\ last = [op |-> "MovementFilter", aim |-> << >>, n |-> 3,
             filter |-> MovementFilter(3), before |-> MovementFilter(3),
             result |-> << >>, added |-> << >>]

AddPosition ==
  \E pos \in Positions \cup {<< >>} :
    /\ pos # << >> => Len(last.added) < MaxAdds
    /\ last' = [last EXCEPT !.op = "add_position", !.aim = pos,
                            !.filter = add_position(last.filter, pos),
                            !.before = last.filter,
                            !.result = << >>,
                            !.added = IF pos = << >> THEN @
                                      ELSE Append(@, pos)]
    /\ UNCHANGED <<eng, now>>

SetBufferSize ==
  \E n \in BufferSizes :
    /\ last' = [last EXCEPT !.op = "set_buffer_size", !.aim = << >>,
                            !.n = n,
                            !.filter = set_buffer_size(last.filter, n),
                            !.before = last.filter,
                            !.result = << >>]
    /\ UNCHANGED <<eng, now>>

GetFilteredPosition ==
  /\ last' = [last EXCEPT !.op = "get_filtered_position", !.aim = << >>,
                          !.before = last.filter,
                          !.result = get_filtered_position(last.filter)]
  /\ UNCHANGED <<eng, now>>

NextFilter ==
  \/ AddPosition
  \/ SetBufferSize
  \/ GetFilteredPosition

SpecFilter == InitFilter /\ [][NextFilter]_vars

\* SpecCalibration follows one Calibration under adjust_sensitivity.  last
\* holds the calibration, the calibration before the call, the landmarks
\* and screen height of the call and the value it returned.
InitCalibration ==
  /\ eng = InitEngine
  /\ now = StartMs
  /\ last = [op |-> "Calibration", aim |-> << >>,
             calibration |-> Calibration, before |-> Calibration,
             landmarks |-> << >>, height |-> 720, result |-> <<1, 1>>]

AdjustSensitivity ==
  \E landmarks \in LandmarkLists, height \in ScreenHeights :
    LET c == adjust_sensitivity(last.calibration, landmarks, height)
    IN  /\ last' = [last EXCEPT !.op = "adjust_sensitivity",
                                !.calibration = c,
                                !.before = last.calibration,
                                !.landmarks = landmarks,
                                !.height = height,
                                !.result = c.sensitivity]
        /\ UNCHANGED <<eng, now>>

NextCalibration == AdjustSensitivity

SpecCalibration == InitCalibration /\ [][NextCalibration]_vars

\* SpecMouse follows one MouseTracker under get_aim_position.  last holds
\* the tracker, the raw pointer position of the call and its result.
InitMouse ==
  /\ eng = InitEngine
  /\ now = StartMs
  /\ \E screen \in TrackerScreens :
       last = [op |-> "MouseTracker", aim |-> << >>,
               tracker |-> MouseTracker(screen[1], screen[2]),
               raw |-> <<0, 0>>]

MouseAim ==
  \E x \in RawXs, y \in RawYs :
    /\ last' = [last EXCEPT !.op = "get_aim_position",
                            !.aim = mouse_get_aim_position(last.tracker,
                                                           <<x, y>>),
                            !.raw = <<x, y>>]
    /\ UNCHANGED <<eng, now>>

NextMouse == MouseAim

SpecMouse == InitMouse /\ [][NextMouse]_vars

\* What a loop iteration reads when nothing happens outside: no event, no
\* landmarks, no aim, 300 ms since the last iteration.
Quiet ==
  [events |-> << >>, landmarks |-> FALSE, detected |-> NoGestures,
   aim_pos |-> << >>, dt_ms |-> 300,
   lives |-> CHOOSE lives \in ParticleLives : TRUE,
   r |-> 10, pos |-> <<100, 100>>, vel |-> <<2, 0>>]

QuitEvent == KeyEvent("QUIT", "")

\* One iteration of the loop of run: clock.tick lets d ms pass, then the
\* body runs on what it reads from outside.  last holds that input.
Tick(queues, landmarks, detections, aims, draws, deltas, until) ==
  \E events \in queues, lm \in landmarks, detected \in detections,
     aim \in aims, r \in draws, d \in deltas :
    LET in == [Quiet EXCEPT !.events = events, !.landmarks = lm,
                            !.detected = detected, !.aim_pos = aim,
                            !.r = r, !.dt_ms = d]
    IN  /\ eng.running
        /\ now + d <= until
        /\ Len(run_iteration(Fresh, in, now + d).targets) <= MaxTargets
        /\ eng' = run_iteration(Fresh, in, now + d)
        /\ now' = now + d
        /\ last' = [op |-> "run_iteration", aim |-> aim, in |-> in]

PauseOnly == [NoGestures EXCEPT !.pause = TRUE]

\* SpecQuit follows the loop under window closes, the Escape, O and P keys
\* and the pause gesture.
QuitQueues ==
  {<< >>, <<QuitEvent>>, <<KeyEvent("KEYDOWN", "ESCAPE")>>,
   <<KeyEvent("KEYDOWN", "o")>>, <<KeyEvent("KEYDOWN", "p")>>}

TickQuit ==
  Tick(QuitQueues, BOOLEAN, {NoGestures, PauseOnly}, {<< >>}, {10}, {300},
       StartMs + Horizon)

NextQuit == TickQuit

SpecQuit == Init /\ [][NextQuit]_vars

\* SpecEscalation follows the loop over a long session: frames of 16 ms,
\* stalls of 100 s, and the keys 1, 2, 3 that select a difficulty, pressed
\* on the frame after a spawn or 55 frames after it.
SessionMs == 225000

SelectionFrames == {0, 55}

DifficultyKeys == {"1", "2", "3"}

DifficultyQueues ==
  {<< >>} \cup {<<KeyEvent("KEYDOWN", k)>> : k \in DifficultyKeys}

TickEscalation ==
  Tick(IF eng.spawn_timer \in SelectionFrames THEN DifficultyQueues
       ELSE {<< >>},
       {FALSE}, {NoGestures}, {<< >>}, {10}, {16, 100000},
       StartMs + SessionMs)

NextEscalation == TickEscalation

SpecEscalation == Init /\ [][NextEscalation]_vars

\* What detect_gestures of HandTracker can return: index only (shoot), fist
\* (reload), open palm (pause), at most one of them.
Gestures ==
  {NoGestures, PauseOnly, [NoGestures EXCEPT !.shoot = TRUE],
   [NoGestures EXCEPT !.reload = TRUE]}

\* SpecGesture follows the loop under the three gestures, with and without
\* landmarks, and the Space key.

SpaceQueues ==
  {<< >>, <<KeyEvent("KEYDOWN", "SPACE")>>, <<KeyEvent("KEYUP", "SPACE")>>}

TickGesture ==
  Tick(SpaceQueues, BOOLEAN, Gestures, {<< >>, <<100, 100>>}, {10}, {300},
       StartMs + Horizon)

NextGesture == TickGesture

SpecGesture == Init /\ [][NextGesture]_vars

\* SpecPause follows the loop at 300 ms a frame up to and past the first
\* spawn, a moving target: the P key at any frame, and once a target is
\* up the shoot and reload gestures with the aim on the spawn point or
\* far from it.
PauseSessionMs == 21000

PauseQueues == {<< >>, <<KeyEvent("KEYDOWN", "p")>>}

TickPause ==
  Tick(PauseQueues, {TRUE},
       IF eng.targets # << >> THEN Gestures \ {PauseOnly} ELSE {NoGestures},
       {<<100, 100>>, <<600, 600>>}, {70}, {300}, StartMs + PauseSessionMs)

NextPause == TickPause

SpecPause == Init /\ [][NextPause]_vars

\* SpecEffects follows the effects of shots and hits through the frames
\* that age them: shots and spawns up to the horizon, frames of 100 or
\* 300 ms for as long as an effect is left.  The loop runs an iteration
\* after the other, so a frame that can be taken is taken.
EffectsLeft(s) ==
  \/ s.explosions # << >>
  \/ s.shockwaves # << >>
  \/ s.tracers # << >>
  \/ s.muzzle_flashes # << >>

FrameEffects ==
  \E d \in {100, 300} :
    /\ now + d <= StartMs + Horizon \/ EffectsLeft(eng)
    /\ eng' = update_effects(Fresh, d, now + d)
    /\ now' = now + d
    /\ last' = [op |-> "update_effects", aim |-> << >>]

ShootEffects ==
  /\ now < StartMs + Horizon
  /\ ShootAttempt({<< >>, <<100, 100>>})

SpawnEffects ==
  /\ now < StartMs + Horizon
  /\ SpawnStatic

NextEffects ==
  \/ FrameEffects
  \/ ShootEffects
  \/ SpawnEffects

SpecEffects == Init /\ [][NextEffects]_vars /\ WF_vars(FrameEffects)

\* SpecConstruct follows Target.__init__ over the multipliers of the three
\* profiles and of tests/test_targets.py, and some small and odd ones, then
\* the updates of the target it made.
ConstructSizeMuls == {10, 30, 45, 90, 100, 110, 120}

ConstructPointsMuls == {25, 50, 90, 100, 120}

ConstructVelocities == {<<3, 0>>, <<-2, 1>>}

InitConstruct ==
  /\ eng = InitEngine
  /\ now = StartMs
  /\ \E ttype \in TargetTypes, size_mul \in ConstructSizeMuls,
        points_mul \in ConstructPointsMuls, vel \in ConstructVelocities :
       LET t == Target(640, 360, ttype, 100, size_mul, points_mul, vel)
       IN  last = [op |-> "Target", aim |-> << >>, target |-> t,
                   before |-> t, result |-> FALSE, updates |-> 0,
                   size_mul |-> size_mul, points_mul |-> points_mul]

NextConstruct == UpdateTarget

SpecConstruct == InitConstruct /\ [][NextConstruct]_vars

\* SpecChoice follows _weighted_choice under each profile, for every draw
\* of random.random() in hundredths of [0, 1).
UnitDraws == 0..99

WeightedChoice ==
  \E r \in UnitDraws :
    /\ last' = [op |-> "weighted_choice", aim |-> << >>, r |-> r,
                result |-> weighted_choice(eng, r)]
    /\ UNCHANGED <<eng, now>>

NextChoice ==
  \/ SelectDifficulty
  \/ WeightedChoice

SpecChoice == Init /\ [][NextChoice]_vars

\* SpecKey follows the loop under the Space key and the O key, with the
\* key itself: last.space tells whether Space is physically down, and a
\* press comes only for a key that is up, a release for one that is down.
KeyQueues(space) ==
  {<< >>, <<KeyEvent("KEYDOWN", "o")>>,
   <<KeyEvent(IF space THEN "KEYUP" ELSE "KEYDOWN", "SPACE")>>}

SpaceAfter(space, events) ==
  IF events # << >> /\ events[1].key = "SPACE" THEN ~space ELSE space

InitKey ==
  /\ eng = InitEngine
  /\ now = StartMs
  /\ last = [op |-> "init", aim |-> << >>, space |-> FALSE]

TickKey ==
  \E events \in KeyQueues(last.space), aim \in {<< >>, <<100, 100>>} :
    LET in == [Quiet EXCEPT !.events = events, !.aim_pos = aim]
    IN  /\ eng.running
        /\ now + 300 <= StartMs + Horizon
        /\ eng' = run_iteration(Fresh, in, now + 300)
        /\ now' = now + 300
        /\ last' = [op |-> "run_iteration", aim |-> aim, in |-> in,
                    space |-> SpaceAfter(last.space, events)]

NextKey == TickKey

SpecKey == InitKey /\ [][NextKey]_vars

\* SpecReload follows the loop through reloads: the Space key to spend
\* rounds, the R key to reload, and during the reload the pause key, the
\* overlay and the key of the Hard profile.  Input
\* stops at the horizon; the loop goes on for the length of a reload, and
\* as it runs an iteration after the other, with input or without, a tick
\* that can be taken is.
ReloadQueues ==
  {<< >>} \cup
  {<<KeyEvent("KEYDOWN", k)>> : k \in {"SPACE", "r", "p", "o", "3"}}

ReloadUntil ==
  IF eng.reloading THEN StartMs + Horizon + reload_time_ms
  ELSE StartMs + Horizon

TickReload ==
  Tick(ReloadQueues, {TRUE}, {NoGestures}, {<< >>}, {10}, {300},
       ReloadUntil)

IdleTickReload ==
  Tick({<< >>}, {TRUE}, {NoGestures}, {<< >>}, {10}, {300}, ReloadUntil)

NextReload == TickReload

SpecReload == Init /\ [][NextReload]_vars /\ WF_vars(IdleTickReload)

\* SpecArea follows one target from its spawn through the updates of the
\* loop: each type under each profile, spawned in the corners of the range
\* of spawn_target (50 from each edge) and heading for the edges.
AreaPoints ==
  {<<50, 50>>, <<screen_width - 50, screen_height - 50>>}

AreaVelocities == {<<-2, -1>>, <<2, 1>>}

SpawnInCorner ==
  \E r \in RandomDraws, pos \in AreaPoints, vel \in AreaVelocities :
    /\ eng.targets = << >>
    /\ eng' = spawn_target(Fresh, r, pos, vel)
    /\ last' = [op |-> "spawn_target", aim |-> << >>]
    /\ UNCHANGED now

\* The target updates of one loop iteration that lasts 300 ms.
UpdateTargets ==
  /\ ~eng.paused
  /\ now + 300 <= StartMs + Horizon
  /\ eng' = [Fresh EXCEPT !.targets = [i \in DOMAIN @ |-> update(@[i])]]
  /\ now' = now + 300
  /\ last' = [op |-> "update_targets", aim |-> << >>]

NextArea ==
  \/ SelectDifficulty
  \/ SpawnInCorner
  \/ UpdateTargets

SpecArea == Init /\ [][NextArea]_vars

\* SpecMain follows main from its first line to its return: the two
\* trackers, the construction of the engine, the loop of run under window
\* closes, the O and P keys, and the exceptions that the construction and
\* an iteration can raise.  last.op is the place main is at.
MainEventQueues ==
  {<< >>, <<QuitEvent>>, <<KeyEvent("KEYDOWN", "o")>>,
   <<KeyEvent("KEYDOWN", "p")>>}

InitMain ==
  /\ eng = InitEngine
  /\ now = StartMs
  /\ last = [op |-> "main", aim |-> << >>, tracker |-> "none",
             hand_failed |-> FALSE, ran |-> FALSE, raised |-> FALSE,
             shutdowns |-> 0]

\* tracker = HandTracker(), which returns or raises.
MainHandTracker ==
  /\ last.op = "main"
  /\ \/ last' = [last EXCEPT !.op = "GameEngine", !.tracker = "hand"]
     \/ last' = [last EXCEPT !.op = "MouseTracker", !.hand_failed = TRUE]
  /\ UNCHANGED <<eng, now>>

\* The handler of the inner try: tracker = MouseTracker().
MainMouseTracker ==
  /\ last.op = "MouseTracker"
  /\ last' = [last EXCEPT !.op = "GameEngine", !.tracker = "mouse"]
  /\ UNCHANGED <<eng, now>>

\* engine = GameEngine(), which returns or raises.
MainGameEngine ==
  /\ last.op = "GameEngine"
  /\ \/ /\ \E a \in AudioSetups : eng' = GameEngine(a[1], a[2])
        /\ last' = [last EXCEPT !.op = "run", !.ran = TRUE]
     \/ /\ last' = [last EXCEPT !.op = "except", !.raised = TRUE]
        /\ UNCHANGED eng
  /\ UNCHANGED now

\* One iteration of the loop of engine.run(tracker), which completes or
\* raises.
MainRunIteration ==
  /\ last.op = "run"
  /\ eng.running
  /\ now + 300 <= StartMs + Horizon
  /\ \/ /\ \E events \in MainEventQueues :
             eng' = run_iteration(Fresh, [Quiet EXCEPT !.events = events],
                                  now + 300)
        /\ UNCHANGED last
     \/ /\ last' = [last EXCEPT !.op = "except", !.raised = TRUE]
        /\ UNCHANGED eng
  /\ now' = now + 300

\* The loop of run ends on running = FALSE and run returns.
MainRunReturn ==
  /\ last.op = "run"
  /\ ~eng.running
  /\ last' = [last EXCEPT !.op = "finally"]
  /\ UNCHANGED <<eng, now>>

\* The handler of the outer try prints the exception.
MainExcept ==
  /\ last.op = "except"
  /\ last' = [last EXCEPT !.op = "finally"]
  /\ UNCHANGED <<eng, now>>

MainFinally ==
  /\ last.op = "finally"
  /\ last' = [main_finally(last) EXCEPT !.op = "return"]
  /\ UNCHANGED <<eng, now>>

NextMain ==
  \/ MainHandTracker
  \/ MainMouseTracker
  \/ MainGameEngine
  \/ MainRunIteration
  \/ MainRunReturn
  \/ MainExcept
  \/ MainFinally

SpecMain == InitMain /\ [][NextMain]_vars

(***************************************************************************)
(* Vocabulary of the properties.  A step is described by the state before  *)
(* it (eng, now) and the state after it (eng', last').                     *)
(***************************************************************************)
\* The step is a shoot attempt; its aim point is last'.aim.
Attempt == last'.op = "try_shoot"

Idle == ~eng.paused /\ ~eng.reloading

CooldownOver == now - eng.last_shot_time >= eng.shot_cooldown_ms

\* The step is a shoot attempt that meets every condition of a shot.
Fires == Attempt /\ Idle /\ eng.ammo > 0 /\ CooldownOver

\* Apart from the cue log, which every call starts afresh, the step changed
\* nothing in the engine and handed no cue to the sound player.
Ignored == eng' = Fresh

Contains(t, aim) == aim # << >> /\ check_collision(t, aim)

Hits(targets, aim) == SelectSeq(targets, LAMBDA t : Contains(t, aim))

Misses(targets, aim) == SelectSeq(targets, LAMBDA t : ~Contains(t, aim))

RECURSIVE SumPoints(_)
SumPoints(targets) ==
  IF targets = << >> THEN 0
  ELSE Head(targets).points + SumPoints(Tail(targets))

(***************************************************************************)
(* C1: in every reachable state 0 <= ammo <= max_ammo.                     *)
(***************************************************************************)
AmmoWithinMagazine == 0 <= eng.ammo /\ eng.ammo <= eng.max_ammo

\* The magazine has just been emptied by a shot.
MagazineEmptied ==
  last.op = "try_shoot" /\ eng.cues = <<"shot">> /\ eng.ammo = 0

(***************************************************************************)
(* C2: a step that takes a round out of the magazine on a shoot attempt    *)
(* starts from a state that is not paused, not reloading, has ammo > 0 and *)
(* lies at least shot_cooldown_ms after the previous shot.                 *)
(***************************************************************************)
ShotOnlyWhenAllowed ==
  [][(Attempt /\ eng'.ammo < eng.ammo)
       => (Idle /\ eng.ammo > 0 /\ CooldownOver)]_vars

\* A shot other than the first one since the magazine was last filled.
SecondShotFired ==
  /\ last.op = "try_shoot"
  /\ eng.cues # << >> /\ eng.cues[1] = "shot"
  /\ eng.last_shot_time = now
  /\ eng.ammo <= eng.max_ammo - 2

(***************************************************************************)
(* C3, as amended: every successful shot takes exactly one round, records  *)
(* the shot timestamp, plays the shot cue and runs hit resolution; it      *)
(* stores a muzzle flash at the aim point when the aim point is present,   *)
(* and none (and destroys no target) when the aim point is absent.         *)
(***************************************************************************)
ShotEffects ==
  [][Fires =>
       /\ eng'.ammo = eng.ammo - 1
       /\ eng'.last_shot_time = now
       /\ eng'.cues # << >> /\ eng'.cues[1] = "shot"
       /\ eng'.muzzle_flashes =
            (IF last'.aim = << >> THEN eng.muzzle_flashes
             ELSE Append(eng.muzzle_flashes,
                         [pos |-> last'.aim, end |-> now + MuzzleFlashMs]))
       /\ Len(eng'.targets) =
            Len(eng.targets) - Len(Hits(eng.targets, last'.aim))]_vars

\* A shot has just been fired with no aim point: no flash is stored.
ShotWithoutAim ==
  /\ last.op = "try_shoot" /\ last.aim = << >>
  /\ eng.cues = <<"shot">>
  /\ eng.last_shot_time = now
  /\ eng.muzzle_flashes = << >>

\* C3 as stated: every successful shot, whatever the aim value, takes one
\* round, records the timestamp and stores a muzzle flash.
ShotAlwaysFlashes ==
  [][Fires =>
       /\ eng'.ammo = eng.ammo - 1
       /\ eng'.last_shot_time = now
       /\ Len(eng'.muzzle_flashes) = Len(eng.muzzle_flashes) + 1]_vars

(***************************************************************************)
(* C4: a shoot attempt with ammo = 0, not paused and not reloading, leaves *)
(* ammo, reloading, score and the targets as they are and sets the no-ammo *)
(* message expiry to the attempt time + 700 ms.                            *)
(***************************************************************************)
DryFire ==
  [][(Attempt /\ Idle /\ eng.ammo = 0) =>
       /\ eng'.ammo = eng.ammo
       /\ eng'.reloading = eng.reloading
       /\ eng'.score = eng.score
       /\ eng'.targets = eng.targets
       /\ eng'.no_ammo_msg_end_ms = now + 700
       /\ eng'.no_ammo_msg_end_ms >= now]_vars

\* A dry fire has just happened with a target on the screen.
DryFired ==
  /\ last.op = "try_shoot"
  /\ eng.cues = <<"dry">>
  /\ eng.ammo = 0
  /\ eng.targets # << >>
  /\ eng.no_ammo_msg_end_ms = now + 700

(***************************************************************************)
(* C5, as amended: a shoot attempt made less than shot_cooldown_ms after   *)
(* the last shot never takes a round and never plays the shot cue.  With   *)
(* ammo > 0, or while paused or reloading, it is ignored: no cue, no-ammo  *)
(* message not armed.  With ammo = 0, not paused and not reloading, it is  *)
(* a dry fire all the same: the dry cue is played and the message armed.   *)
(***************************************************************************)
CooldownGate ==
  [][(Attempt /\ ~CooldownOver) =>
       IF Idle /\ eng.ammo = 0
       THEN /\ eng'.cues = <<"dry">>
            /\ eng'.no_ammo_msg_end_ms = now + NoAmmoMsgMs
            /\ eng'.ammo = eng.ammo
       ELSE Ignored]_vars

\* A shoot attempt with rounds left has just been ignored inside the cooldown.
AttemptInsideCooldown ==
  /\ last.op = "try_shoot"
  /\ eng.cues = << >>
  /\ ~eng.paused /\ ~eng.reloading /\ eng.ammo > 0
  /\ now - eng.last_shot_time < eng.shot_cooldown_ms

\* C5 as stated: inside the cooldown an attempt plays no cue, arms no
\* message and takes no round, whatever the ammo count.
CooldownGateAnyAmmo ==
  [][(Attempt /\ ~CooldownOver) =>
       /\ eng'.cues = << >>
       /\ eng'.no_ammo_msg_end_ms = eng.no_ammo_msg_end_ms
       /\ eng'.ammo = eng.ammo]_vars

(***************************************************************************)
(* C6: a reload request with no reload in progress and ammo < max_ammo     *)
(* sets reloading and records the start time; any other request changes    *)
(* nothing, the recorded start time included.                              *)
(***************************************************************************)
ReloadRequest ==
  [][(last'.op = "start_reload") =>
       IF ~eng.reloading /\ eng.ammo < eng.max_ammo
       THEN eng' = [Fresh EXCEPT !.reloading = TRUE,
                                 !.reload_started_at = now]
       ELSE Ignored]_vars

\* A request has just been made during a reload that started earlier.
RequestDuringReload ==
  /\ last.op = "start_reload"
  /\ eng.reloading
  /\ eng.reload_started_at < now

(***************************************************************************)
(* C7: a reload update during a reload ends it and fills the magazine when *)
(* at least reload_time_ms have passed since its start, and otherwise      *)
(* changes neither reloading nor ammo.                                     *)
(***************************************************************************)
ReloadCompletion ==
  [][(last'.op = "update_reload" /\ eng.reloading) =>
       IF now - eng.reload_started_at >= 1200
       THEN ~eng'.reloading /\ eng'.ammo = eng.max_ammo
       ELSE eng'.reloading /\ eng'.ammo = eng.ammo]_vars

\* A reload has just completed exactly reload_time_ms after its start.
ReloadCompleted ==
  /\ last.op = "update_reload"
  /\ eng.cues = <<"reload">>
  /\ ~eng.reloading /\ eng.ammo = eng.max_ammo
  /\ now - eng.reload_started_at = 1200

(***************************************************************************)
(* C8: a shoot attempt during a reload changes nothing and plays no cue,   *)
(* whatever the ammo count.                                                *)
(***************************************************************************)
AttemptDuringReload == [][(Attempt /\ eng.reloading) => Ignored]_vars

\* An attempt has just been made during the reload of an empty magazine.
AttemptedWhileReloadingEmpty ==
  /\ last.op = "try_shoot"
  /\ eng.reloading /\ ~eng.paused
  /\ eng.ammo = 0
  /\ eng.cues = << >>

SingleHit ==
  [][(Fires /\ Len(Hits(eng.targets, last'.aim)) = 1) =>
       LET t == Hits(eng.targets, last'.aim)[1]
       IN  /\ eng'.score = eng.score + t.points
           /\ eng'.targets = RemoveFirst(eng.targets, t)
           /\ Len(eng'.targets) = Len(eng.targets) - 1
           /\ Len(eng'.explosions) >= Len(eng.explosions) + 1
           /\ Len(eng'.shockwaves) >= Len(eng.shockwaves) + 1
           /\ Len(eng'.tracers) >= Len(eng.tracers) + 1]_vars

\* One of two live targets has just been destroyed; the other is still live.
OneOfTwoDestroyed ==
  /\ last.op = "try_shoot"
  /\ eng.cues = <<"shot", "hit">>
  /\ Len(eng.targets) = 1

(***************************************************************************)
(* C11: the score is non-negative and never decreases: no frame, shoot     *)
(* attempt, reload step, difficulty selection, pause toggle or spawn       *)
(* lowers it.                                                              *)
(***************************************************************************)
ScoreMonotone == [][eng.score >= 0 /\ eng'.score >= eng.score]_vars

\* A hit has just raised the score above zero.
ScoreRaised ==
  /\ last.op = "try_shoot"
  /\ eng.cues = <<"shot", "hit">>
  /\ eng.score > 0

(***************************************************************************)
(* C12: selecting Easy, Normal or Hard, from any engine state, sets        *)
(* max_ammo, spawn_interval, spawn_interval_min, shot_cooldown_ms, the     *)
(* speed, size and points multipliers and the spawn weights to the values  *)
(* of that profile in one step, and sets ammo to the new max_ammo.         *)
(***************************************************************************)
ProfileOf(s, cfg) ==
  /\ s.max_ammo = cfg.max_ammo
  /\ s.spawn_interval = cfg.spawn_interval
  /\ s.spawn_interval_min = cfg.spawn_interval_min
  /\ s.shot_cooldown_ms = cfg.shot_cooldown_ms
  /\ s.target_speed_mul = cfg.speed_mul
  /\ s.target_size_mul = cfg.size_mul
  /\ s.points_mul = cfg.points_mul
  /\ s.spawn_weights = cfg.weights
  /\ s.ammo = cfg.max_ammo

DifficultySelected ==
  [][last'.op = "apply_difficulty" =>
       /\ eng'.difficulty \in Levels
       /\ ProfileOf(eng', difficulty_levels[eng'.difficulty])]_vars

\* Hard has just been selected during a reload: the magazine holds the five
\* rounds of Hard while the reload is still running.
HardSelectedWhileReloading ==
  /\ last.op = "apply_difficulty"
  /\ eng.difficulty = "Hard"
  /\ eng.reloading
  /\ eng.ammo = 5

(***************************************************************************)
(* C13: applying a name that is not a defined profile does not fail: the   *)
(* engine ends with the values of the Normal profile and ammo refilled to  *)
(* the max_ammo of Normal.                                                 *)
(***************************************************************************)
UnknownLevelIsNormal ==
  [][(last'.op = "apply_difficulty_by_name" /\ last'.level \notin Levels) =>
       ProfileOf(eng', difficulty_levels["Normal"])]_vars

\* An unknown name has just been applied to an engine that Hard was
\* selected on: the label says Hard, the magazine holds the six of Normal.
UnknownAppliedOverHard ==
  /\ last.op = "apply_difficulty_by_name"
  /\ last.level \notin Levels
  /\ eng.difficulty = "Hard"
  /\ eng.max_ammo = 6 /\ eng.ammo = 6

(***************************************************************************)
(* C14: opening the options overlay sets paused and remembers the value    *)
(* paused had just before; nothing changes the remembered value while the  *)
(* overlay stays open; closing the overlay sets paused to the remembered   *)
(* value.  So paused after the close is paused before the open, whatever   *)
(* events and pause gestures came between.                                 *)
(***************************************************************************)
OptionsRestorePause ==
  [][/\ (~eng.show_options /\ eng'.show_options) =>
          eng'.paused /\ eng'.options_paused_prev = eng.paused
     /\ (eng.show_options /\ eng'.show_options) =>
          eng'.options_paused_prev = eng.options_paused_prev
     /\ (eng.show_options /\ ~eng'.show_options) =>
          eng'.paused = eng.options_paused_prev]_vars

\* An overlay that was opened on a paused game has just been closed: the
\* game is paused again.
ClosedOverPausedGame ==
  /\ last.op = "handle_event"
  /\ ~eng.show_options
  /\ eng.options_paused_prev
  /\ eng.paused

(***************************************************************************)
(* C15: while the options overlay is open every event is handled by the    *)
(* overlay only: it leaves difficulty, ammo, reloading, the held shoot     *)
(* key and running alone and does not toggle pause; it can only change     *)
(* mute, the volume, the drag flag, play one preview cue, or close the     *)
(* overlay (which restores paused).                                        *)
(***************************************************************************)
\* s without what an overlay event may change.
OutsideOverlay(s) ==
  [s EXCEPT !.muted = FALSE, !.master_volume = 0,
            !.sounds = [k \in Cues |-> << >>],
            !.options_dragging_volume = FALSE,
            !.cues = << >>, !.show_options = FALSE, !.paused = FALSE]

OverlayTakesEvents ==
  [][(last'.op = "handle_event" /\ eng.show_options) =>
       /\ eng'.difficulty = eng.difficulty
       /\ eng'.ammo = eng.ammo
       /\ eng'.reloading = eng.reloading
       /\ eng'.shoot_key_held = eng.shoot_key_held
       /\ eng'.running = eng.running
       /\ OutsideOverlay(eng') = OutsideOverlay(eng)
       /\ eng'.cues \in {<< >>} \cup {<<k>> : k \in Cues}
       /\ \/ eng'.show_options /\ eng'.paused = eng.paused
          \/ ~eng'.show_options /\ eng'.paused = eng.options_paused_prev]_vars

\* The overlay, open over a reloading game of difficulty Hard with the
\* shoot key held, has just played the preview of the shot.
PreviewPlayedInOverlay ==
  /\ last.op = "handle_event"
  /\ eng.show_options
  /\ eng.cues = <<"shot">>
  /\ eng.difficulty = "Hard"
  /\ eng.shoot_key_held
  /\ eng.reloading

(***************************************************************************)
(* C16: the stored master volume stays within [0, 1] under volume keys,    *)
(* bar clicks and drags, wherever the pointer is; toggling mute does not   *)
(* change the stored master volume; while muted every cue sounds at        *)
(* volume 0.                                                               *)
(***************************************************************************)
\* The volume cue k is heard at (_play_sound plays nothing without a mixer
\* or a Sound).
EffectiveVolume(s, k) ==
  IF s.audio_enabled /\ s.sounds[k] # << >> THEN s.sounds[k][1] ELSE 0

VolumeSound(s) ==
  /\ 0 <= s.master_volume /\ s.master_volume <= VolumeOne
  /\ s.muted => \A k \in Cues : EffectiveVolume(s, k) = 0

VolumeWithinRange ==
  [][/\ VolumeSound(eng) /\ VolumeSound(eng')
     /\ eng'.muted # eng.muted => eng'.master_volume = eng.master_volume]_vars

\* A drag right of the bar has set the volume of a muted engine to 1.0.
DraggedPastBarWhileMuted ==
  /\ eng.options_dragging_volume
  /\ eng.master_volume = VolumeOne
  /\ eng.muted
  /\ eng.audio_enabled

(***************************************************************************)
(* C17: check_collision(p) is true exactly when the squared distance from  *)
(* the centre of the target to p is at most the squared radius.  The rim   *)
(* is inside: a point at distance radius on an axis hits, a point at       *)
(* radius + 1 on an axis misses.                                           *)
(***************************************************************************)
SquaredDistance(t, p) ==
  (t.x - p[1]) * (t.x - p[1]) + (t.y - p[2]) * (t.y - p[2])

CollisionIsClosedDisc ==
  last.op = "check_collision" =>
    LET t == last.target
        p == last.aim
    IN  /\ last.result <=> SquaredDistance(t, p) <= t.radius * t.radius
        /\ p \in {<<t.x + t.radius, t.y>>, <<t.x - t.radius, t.y>>,
                  <<t.x, t.y + t.radius>>, <<t.x, t.y - t.radius>>}
             => last.result
        /\ p \in {<<t.x + t.radius + 1, t.y>>, <<t.x - t.radius - 1, t.y>>,
                  <<t.x, t.y + t.radius + 1>>, <<t.x, t.y - t.radius - 1>>}
             => ~last.result

\* A point on the rim of a target of radius 40, off both axes, has just
\* been found to hit.
ObliqueRimHit ==
  /\ last.op = "check_collision"
  /\ last.target.radius = 40
  /\ last.aim = <<last.target.x + 24, last.target.y + 32>>
  /\ last.result

(***************************************************************************)
(* C18: when an update carries the circle of a moving target past an edge  *)
(* of the play area, the position on that axis is clamped so that the      *)
(* circle touches the edge (x = radius or x = width - radius, likewise y)  *)
(* and the velocity on that axis changes sign and keeps its magnitude;     *)
(* static and small targets never change position.                         *)
(***************************************************************************)
Bounce ==
  [][last'.op = "update" =>
       LET t == last.target
           u == last'.target
           w == t.bounds[1]
           h == t.bounds[2]
       IN  /\ t.type # "moving" => u.x = t.x /\ u.y = t.y
           /\ (t.type = "moving" /\ t.x + t.vx - t.radius < 0) =>
                u.x = t.radius /\ u.vx = -t.vx /\ u.vx # 0
           /\ (t.type = "moving" /\ t.x + t.vx + t.radius > w) =>
                u.x = w - t.radius /\ u.vx = -t.vx /\ u.vx # 0
           /\ (t.type = "moving" /\ t.y + t.vy - t.radius < 0) =>
                u.y = t.radius /\ u.vy = -t.vy /\ u.vy # 0
           /\ (t.type = "moving" /\ t.y + t.vy + t.radius > h) =>
                u.y = h - t.radius /\ u.vy = -t.vy /\ u.vy # 0]_vars

\* A moving target has just bounced off the left and the top edge at once.
BouncedInCorner ==
  /\ last.op = "update"
  /\ last.target.x = last.target.radius
  /\ last.target.y = last.target.radius
  /\ last.before.vx < 0 /\ last.target.vx > 0
  /\ last.before.vy < 0 /\ last.target.vy > 0

(***************************************************************************)
(* C19: after any add_position and set_buffer_size calls the buffer of a   *)
(* MovementFilter holds at most buffer_size samples, and they are the      *)
(* most recently added ones, in order; an absent position is not added;    *)
(* get_filtered_position returns, per axis, an integer nearest to the      *)
(* mean of the buffered samples, and nothing when the buffer is empty;     *)
(* shrinking the window to n keeps exactly the n most recent samples (all  *)
(* of them when there are fewer than n).                                   *)
(***************************************************************************)
IsSuffix(part, whole) ==
  /\ Len(part) <= Len(whole)
  /\ \A i \in 1..Len(part) :
       part[i] = whole[Len(whole) - Len(part) + i]

\* r is an integer nearest to sum / n.
NearestToMean(r, sum, n) == 2 * r * n - 2 * sum \in -n..n

FilterWindow ==
  [][LET f == last.filter
         g == last'.filter
     IN  /\ Len(g.buffer) <= g.buffer_size
         /\ IsSuffix(g.buffer, last'.added)
         /\ (last'.op = "add_position" /\ last'.aim = << >>) => g = f
         /\ (last'.op = "add_position" /\ last'.aim # << >>) =>
              /\ g.buffer_size = f.buffer_size
              /\ g.buffer[Len(g.buffer)] = last'.aim
              /\ Len(g.buffer) = Min(f.buffer_size, Len(f.buffer) + 1)
         /\ (last'.op = "set_buffer_size" /\ last'.n >= 1) =>
              /\ g.buffer_size = last'.n
              /\ IsSuffix(g.buffer, f.buffer)
              /\ Len(g.buffer) = Min(last'.n, Len(f.buffer))
         /\ last'.op = "get_filtered_position" =>
              /\ g = f
              /\ f.buffer = << >> <=> last'.result = << >>
              /\ f.buffer # << >> =>
                   /\ Len(last'.result) = 2
                   /\ \A i \in 1..2 :
                        NearestToMean(last'.result[i], SumAxis(f.buffer, i),
                                      Len(f.buffer))]_vars

\* The run of tests/test_hand_utils.py: three positions into a window of
\* 3, the window shrunk to 2, a fourth position, and the filtered
\* position (8, 11) of the last two.
ShrunkWindowAveraged ==
  /\ last.op = "get_filtered_position"
  /\ last.added = <<<<0, 0>>, <<9, 6>>, <<6, 12>>, <<10, 10>>>>
  /\ last.filter = [buffer_size |-> 2,
                    buffer |-> <<<<6, 12>>, <<10, 10>>>>]
  /\ last.result = <<8, 11>>

(***************************************************************************)
(* C20: the sensitivity of a Calibration is within [0.5, 2.0] after any    *)
(* adjust_sensitivity calls: a call returns and stores wrist_y divided by  *)
(* half the screen height, clamped to that range (1.0 at half height, 0.5  *)
(* near the top, 2.0 at full height); a call with absent or empty          *)
(* landmarks returns the previous sensitivity and changes nothing.         *)
(***************************************************************************)
\* The fractions a and b are the same number (denominators positive).
SameNumber(a, b) == a[1] * b[2] = b[1] * a[2]

\* 1/2 <= a <= 2
WithinRange(a) == a[2] > 0 /\ 2 * a[1] >= a[2] /\ a[1] <= 2 * a[2]

\* a is wrist_y / (height / 2) clamped to [1/2, 2].
ClampedRatio(a, wrist_y, height) ==
  IF 4 * wrist_y <= height THEN SameNumber(a, <<1, 2>>)
  ELSE IF wrist_y >= height THEN SameNumber(a, <<2, 1>>)
  ELSE SameNumber(a, <<2 * wrist_y, height>>)

SensitivityClamped ==
  [][last'.op = "adjust_sensitivity" =>
       LET c == last.calibration
           d == last'.calibration
           h == last'.height
       IN  /\ WithinRange(c.sensitivity) /\ WithinRange(d.sensitivity)
           /\ last'.result = d.sensitivity
           /\ last'.landmarks = << >> => d = c
           /\ last'.landmarks # << >> =>
                LET wrist_y == last'.landmarks[1][2]
                IN  /\ ClampedRatio(d.sensitivity, wrist_y, h)
                    /\ 2 * wrist_y = h => SameNumber(d.sensitivity, <<1, 1>>)
                    /\ wrist_y = 10 => SameNumber(d.sensitivity, <<1, 2>>)
                    /\ wrist_y = h => SameNumber(d.sensitivity, <<2, 1>>)]_vars

\* A call without landmarks has just returned the 2.0 that an earlier call
\* with the wrist below the screen had clamped to.
PreviousSensitivityReturned ==
  /\ last.op = "adjust_sensitivity"
  /\ last.landmarks = << >>
  /\ last.result = <<2, 1>>
  /\ last.calibration.sensitivity = <<2, 1>>

(***************************************************************************)
(* C21: for every raw pointer position the aim position of the pointer     *)
(* tracker is the raw position clamped, per axis, into [0, width - 1] x    *)
(* [0, height - 1].                                                        *)
(***************************************************************************)
\* v is u brought into lo..hi.
ClampedInto(v, u, lo, hi) ==
  /\ lo <= v /\ v <= hi
  /\ (lo <= u /\ u <= hi) => v = u
  /\ u < lo => v = lo
  /\ u > hi => v = hi

PointerAimClamped ==
  last.op = "get_aim_position" =>
    /\ Len(last.aim) = 2
    /\ ClampedInto(last.aim[1], last.raw[1], 0, last.tracker.screen_width - 1)
    /\ ClampedInto(last.aim[2], last.raw[2], 0,
                   last.tracker.screen_height - 1)

\* The run of tests/test_mouse_tracker.py: (5000, -10) on a 640 x 480
\* screen gives (639, 0).
PointerBroughtBack ==
  /\ last.op = "get_aim_position"
  /\ last.tracker = MouseTracker(640, 480)
  /\ last.raw = <<5000, -10>>
  /\ last.aim = <<639, 0>>

(***************************************************************************)
(* C22: when the gesture tracker fails to initialize, main falls back to   *)
(* the pointer tracker and goes on to construct and run the engine; and    *)
(* on every path to the end of main on which a tracker was created (a      *)
(* normal quit, an exception in the construction of the engine or in its   *)
(* run) the shutdown of the tracker has been called, once.                 *)
(***************************************************************************)
StartupShutdown ==
  /\ last.hand_failed /\ last.op \notin {"main", "MouseTracker"} =>
       last.tracker = "mouse"
  /\ last.ran => last.tracker # "none"
  /\ last.op = "return" =>
       /\ last.tracker # "none"
       /\ last.shutdowns = 1
       /\ last.ran \/ last.raised
  /\ last.op # "return" => last.shutdowns = 0

\* main has returned after a failed HandTracker() and an exception in the
\* run of the engine, the pointer tracker shut down.
FallbackShutDownAfterError ==
  /\ last.op = "return"
  /\ last.hand_failed /\ last.tracker = "mouse"
  /\ last.ran /\ last.raised
  /\ last.shutdowns = 1

(***************************************************************************)
(* C23: whenever a window close (the QUIT event) is delivered to the loop, *)
(* in any engine state, the running flag becomes false, and the loop ends  *)
(* at its next test of the flag.                                           *)
(***************************************************************************)
QuitDelivered == last'.op = "run_iteration" /\ last'.in.events = <<QuitEvent>>

QuitStopsLoop == [][QuitDelivered => ~eng'.running]_vars

\* What the code does: the window close stops the loop exactly when the
\* options overlay is closed; an open overlay takes the event and drops it.
QuitStopsLoopUnlessOverlay ==
  [][QuitDelivered => (eng'.running <=> eng.show_options)]_vars

\* A window close has just been delivered to an open overlay: the loop
\* still runs.
QuitDroppedByOverlay ==
  /\ last.op = "run_iteration"
  /\ last.in.events = <<QuitEvent>>
  /\ eng.show_options
  /\ eng.running

(***************************************************************************)
(* C24: right after every spawn, spawn_interval is                         *)
(* max(spawn_interval_min, 60 - 5 * floor(elapsed seconds / 20)), with the *)
(* elapsed time counted from the session start, which never moves; and     *)
(* spawn_interval changes only in a tick that spawns or selects a          *)
(* difficulty.                                                             *)
(***************************************************************************)
SpawnedInTick ==
  last'.op = "run_iteration" /\ Len(eng'.targets) = Len(eng.targets) + 1

DifficultySelectedInTick ==
  /\ last'.op = "run_iteration"
  /\ \E i \in 1..Len(last'.in.events) :
       /\ last'.in.events[i].type = "KEYDOWN"
       /\ last'.in.events[i].key \in DifficultyKeys

EscalatedInterval(s, t) ==
  Max(s.spawn_interval_min, 60 - 5 * (((t - StartMs) \div 1000) \div 20))

EscalationAtSpawn ==
  [][/\ eng'.start_time = StartMs
     /\ SpawnedInTick => eng'.spawn_interval = EscalatedInterval(eng', now')
     /\ eng'.spawn_interval # eng.spawn_interval
          => SpawnedInTick \/ DifficultySelectedInTick]_vars

\* A target has just been spawned under Hard after more than 100 s: the
\* interval stands at 35 frames.
SpawnedAfterEscalation ==
  /\ last.op = "run_iteration"
  /\ eng.spawn_timer = 0
  /\ Len(eng.targets) >= 1
  /\ eng.difficulty = "Hard"
  /\ now - StartMs >= 100000
  /\ eng.spawn_interval = 35

(***************************************************************************)
(* C25: once a difficulty is selected, and until another one is, the       *)
(* spawn interval starts at the profile's spawn_interval and only          *)
(* tightens: it never grows from one tick to the next and never falls      *)
(* below the profile's spawn_interval_min.                                 *)
(***************************************************************************)
SpawnIntervalOnlyTightens ==
  [][/\ DifficultySelectedInTick /\ ~SpawnedInTick
          => eng'.spawn_interval
               = difficulty_levels[eng'.difficulty].spawn_interval
     /\ ~DifficultySelectedInTick
          => /\ eng'.spawn_interval <= eng.spawn_interval
             /\ eng'.spawn_interval
                  >= difficulty_levels[eng'.difficulty].spawn_interval_min]_vars

\* What the code keeps: between its minimum and the larger of the profile's
\* interval and the 60 frames of the escalation rule.
SpawnIntervalWithinProfile ==
  LET cfg == difficulty_levels[eng.difficulty]
  IN  /\ eng.spawn_interval >= cfg.spawn_interval_min
      /\ eng.spawn_interval <= Max(cfg.spawn_interval, 60)

\* Hard was selected and a target spawned in the first 20 s: the interval
\* went from the profile's 50 frames up to 60.
HardIntervalRaised ==
  /\ eng.difficulty = "Hard"
  /\ eng.spawn_timer = 0
  /\ Len(eng.targets) >= 1
  /\ eng.spawn_interval = 60

(***************************************************************************)
(* C26: a pause gesture held over consecutive ticks toggles pause once, on *)
(* the first tick it is active, and a reload gesture held over consecutive *)
(* ticks asks for one reload, on the first tick; either fires again only   *)
(* after a tick in which the gesture was inactive.                         *)
(***************************************************************************)
GestureSeen(in, g) == in.landmarks /\ in.detected[g]

\* The gesture g is seen in this tick and was not in the one before.
GestureEdge(g) ==
  /\ last'.op = "run_iteration"
  /\ GestureSeen(last'.in, g)
  /\ ~(last.op = "run_iteration" /\ GestureSeen(last.in, g))

\* The gesture g is seen in this tick and was in the one before.
GestureHeld(g) ==
  /\ last'.op = "run_iteration"
  /\ GestureSeen(last'.in, g)
  /\ last.op = "run_iteration" /\ GestureSeen(last.in, g)

ReloadStartedInTick == eng'.reloading /\ ~eng.reloading

GestureEdgeTriggered ==
  [][/\ GestureEdge("pause") => eng'.paused = ~eng.paused
     /\ GestureHeld("pause") => eng'.paused = eng.paused
     /\ GestureEdge("reload") /\ ~eng.reloading /\ eng.ammo < eng.max_ammo
          => ReloadStartedInTick /\ eng'.reload_started_at = now'
     /\ GestureHeld("reload") => ~ReloadStartedInTick]_vars

\* The reload gesture was made with a full magazine and held through the
\* second tick while the Space key fired a round in each: two rounds are
\* missing and no reload runs.
HeldGesturesFiredOnce ==
  /\ last.op = "run_iteration"
  /\ now = StartMs + 600
  /\ GestureSeen(last.in, "reload")
  /\ eng.reload_gesture_active
  /\ eng.ammo = eng.max_ammo - 2
  /\ ~eng.reloading

(***************************************************************************)
(* C27: within a tick the pause and reload edges are applied before the    *)
(* shoot gesture and the held key: a tick that carries a pause edge that   *)
(* pauses the game, or a reload edge that starts a reload, fires no shot,  *)
(* even when shoot is active with ammo left and the cooldown over.         *)
(***************************************************************************)
ShootActiveInTick ==
  last'.op = "run_iteration"
    /\ (GestureSeen(last'.in, "shoot") \/ eng'.shoot_key_held)

ShotInTick ==
  \/ eng'.ammo < eng.ammo
  \/ \E i \in 1..Len(eng'.cues) : eng'.cues[i] = "shot"

EdgesBeforeShoot ==
  [][/\ GestureEdge("pause") /\ ~eng.paused /\ ShootActiveInTick
          => ~ShotInTick
     /\ GestureEdge("reload") /\ eng.ammo < eng.max_ammo
          /\ ShootActiveInTick
          => ~ShotInTick]_vars

\* The first tick of a session carried the pause gesture and the Space
\* key with an aim point, the magazine full and no shot ever fired: the
\* game is paused and the magazine still full.
PausedInsteadOfShot ==
  /\ last.op = "run_iteration"
  /\ now = StartMs + 300
  /\ GestureSeen(last.in, "pause")
  /\ eng.shoot_key_held
  /\ last.in.aim_pos # << >>
  /\ eng.paused
  /\ eng.ammo = eng.max_ammo
  /\ eng.last_shot_time = 0

(***************************************************************************)
(* C29: in a tick for which the pose source gives no landmarks, every      *)
(* gesture counts as inactive: pause is not toggled, no reload is asked    *)
(* for, no shot is tried on behalf of the shoot gesture, and both          *)
(* gesture-previously-active flags are reset.                              *)
(***************************************************************************)
NoLandmarksInTick == last'.op = "run_iteration" /\ ~last'.in.landmarks

PausedTick == last'.op = "run_iteration" /\ eng'.paused

AgedBy(effects, dt_ms) ==
  [i \in 1..Len(effects) |-> [effects[i] EXCEPT !.life = @ - dt_ms]]

Alive(effects) == SelectSeq(effects, LAMBDA e : e.life > 0)

AgedParticles(explosions, dt_ms) ==
  [i \in 1..Len(explosions) |->
     [particles |-> Alive(AgedBy(explosions[i].particles, dt_ms))]]

GrownBy(shockwaves, dt_ms) ==
  [i \in 1..Len(shockwaves) |->
     [shockwaves[i] EXCEPT !.r = @ + 180 * dt_ms, !.life = @ - dt_ms]]

PausedTickFreezesPlay ==
  [][PausedTick
       => /\ eng'.spawn_timer = eng.spawn_timer
          /\ eng'.targets = eng.targets
          /\ eng'.score = eng.score
          /\ eng.reloading /\ now' - eng.reload_started_at >= reload_time_ms
               => ~eng'.reloading /\ eng'.ammo = eng'.max_ammo
          /\ eng'.tracers = Alive(AgedBy(eng.tracers, last'.in.dt_ms))
          /\ eng'.shockwaves
               = SelectSeq(GrownBy(eng.shockwaves, last'.in.dt_ms),
                           LAMBDA w : w.life > 0 /\ w.r < w.max_r)
          /\ eng'.muzzle_flashes
               = SelectSeq(eng.muzzle_flashes, LAMBDA m : m.end > now')
          /\ eng'.explosions
               = SelectSeq(AgedParticles(eng.explosions, last'.in.dt_ms),
                           LAMBDA ex : ex.particles # << >>)]_vars

\* A paused tick has just run over a moving target and a reload that it
\* completed.
PausedOverLiveGame ==
  /\ last.op = "run_iteration"
  /\ eng.paused
  /\ Len(eng.targets) = 1 /\ eng.targets[1].vx # 0
  /\ eng.spawn_timer > 0
  /\ eng.cues = <<"reload">>
  /\ eng.ammo = eng.max_ammo

(***************************************************************************)
(* C30: after each per-frame effect update no collection holds an expired  *)
(* entity (no tracer or shockwave with life <= 0, no shockwave with        *)
(* radius >= its maximum, no particle with life <= 0, no explosion without *)
(* particles); and under frames of positive length with no further shots   *)
(* or hits, every effect collection becomes empty in the end.              *)
(***************************************************************************)
NoExpiredEntity(s) ==
  /\ \A i \in 1..Len(s.tracers) : s.tracers[i].life > 0
  /\ \A i \in 1..Len(s.shockwaves) :
       s.shockwaves[i].life > 0 /\ s.shockwaves[i].r < s.shockwaves[i].max_r
  /\ \A i \in 1..Len(s.explosions) :
       /\ s.explosions[i].particles # << >>
       /\ \A j \in 1..Len(s.explosions[i].particles) :
            s.explosions[i].particles[j].life > 0

EffectsExpire ==
  /\ [](last.op = "update_effects" => NoExpiredEntity(eng))
  /\ <>[](~EffectsLeft(eng))

\* A frame of 300 ms has just run over a hit: the short-lived half of the
\* particles is gone, the other half and the shock wave are left.
HalfTheParticlesLeft ==
  /\ last.op = "update_effects"
  /\ Len(eng.explosions) = 1
  /\ Len(eng.explosions[1].particles) = NumParticles \div 2
  /\ Len(eng.shockwaves) = 1
  /\ eng.tracers = << >>

(***************************************************************************)
(* C31: a target is built with radius max(8, round(base_radius * size_mul)) *)
(* for a base radius of 40 (static, moving) or 20 (small), with points     *)
(* round(base_points * points_mul) for base points of 10 (static),         *)
(* 20 (moving), 30 (small), and with zero velocity unless it is moving;    *)
(* radius and points never change afterwards.                              *)
(***************************************************************************)
\* n is an integer nearest to hundredths / 100.
NearestInteger(n, hundredths) ==
  100 * n - hundredths <= 50 /\ hundredths - 100 * n <= 50

TargetConstruction ==
  LET t == last.target
      base_radius == IF t.type = "small" THEN 20 ELSE 40
      base_points == CASE t.type = "static" -> 10
                       [] t.type = "moving" -> 20
                       [] t.type = "small" -> 30
      scaled == base_radius * last.size_mul
  IN  /\ t.radius >= 8
      /\ t.radius > 8 => NearestInteger(t.radius, scaled)
      /\ t.radius = 8 => scaled <= 850
      /\ NearestInteger(t.points, base_points * last.points_mul)
      /\ t.type # "moving" => t.vx = 0 /\ t.vy = 0

\* A small target built at 0.3 of its size and half its points has been
\* updated five times: radius 8, points 15.
SmallTargetFloored ==
  /\ last.op = "update"
  /\ last.updates = MaxUpdates
  /\ last.target.type = "small"
  /\ last.size_mul = 30 /\ last.points_mul = 50
  /\ last.target.radius = 8
  /\ last.target.points = 15

(***************************************************************************)
(* C32: for every draw r in [0, 1) and every profile's list of (type,      *)
(* weight), the chosen type is the first entry, in the order of the list,  *)
(* whose cumulative weight is >= r, or the last entry if there is none;    *)
(* the result is always a type of the list.                                *)
(***************************************************************************)
RECURSIVE CumulativeWeight(_, _)
CumulativeWeight(items, i) ==
  IF i = 0 THEN 0 ELSE items[i][2] + CumulativeWeight(items, i - 1)

WeightedSelection ==
  last.op = "weighted_choice"
    => LET items == eng.spawn_weights
           reaching == {i \in 1..Len(items) :
                          CumulativeWeight(items, i) >= last.r}
       IN  /\ \E i \in 1..Len(items) : last.result = items[i][1]
           /\ reaching # {}
                => \E i \in reaching :
                     /\ \A j \in reaching : i <= j
                     /\ last.result = items[i][1]
           /\ reaching = {} => last.result = items[Len(items)][1]

\* Under Hard a draw of exactly 0.35, the weight of the first entry, has
\* chosen that entry.
DrawOnTheBoundary ==
  /\ last.op = "weighted_choice"
  /\ eng.difficulty = "Hard"
  /\ last.r = 35
  /\ last.result = "static"

(***************************************************************************)
(* C33: whenever the options overlay is open the game is paused, in every  *)
(* reachable state, pause gestures received while the overlay is open      *)
(* included.                                                               *)
(***************************************************************************)
OverlayImpliesPaused == eng.show_options => eng.paused

\* The pause gesture has just been seen over an open overlay: the game
\* runs under it.
GameRunsUnderOverlay ==
  /\ last.op = "run_iteration"
  /\ GestureSeen(last.in, "pause")
  /\ eng.show_options
  /\ ~eng.paused

(***************************************************************************)
(* C34: the held-shoot-key flag follows the key: in every reachable state  *)
(* shoot_key_held is true only if Space was pressed and has not been       *)
(* released since, however presses and releases interleave with the        *)
(* opening and closing of the options overlay.                             *)
(***************************************************************************)
HeldFlagFollowsKey == eng.shoot_key_held => last.space

\* Space was released over an open overlay, which has been closed since:
\* the flag is still up and the game fires with no key down.
FiringWithKeyUp ==
  /\ last.op = "run_iteration"
  /\ ~last.space
  /\ eng.shoot_key_held
  /\ ~eng.show_options
  /\ eng.cues = <<"shot">>

(***************************************************************************)
(* C35: the score rises and a target leaves the live set only as part of   *)
(* a successful shot: every step that raises the score or removes a target *)
(* takes one round off the magazine; no frame, timeout or other operation  *)
(* removes a target or awards points.                                      *)
(***************************************************************************)
TargetLeft ==
  \/ Len(eng'.targets) < Len(eng.targets)
  \/ \E i \in 1..Len(eng.targets) :
       \A j \in 1..Len(eng'.targets) : eng'.targets[j] # eng.targets[i]

HitsCostARound ==
  [][eng'.score > eng.score \/ TargetLeft
       => /\ last'.op = "try_shoot"
          /\ eng'.ammo = eng.ammo - 1]_vars

\* The second round of an Easy magazine has just hit the target: 9 points,
\* no target left, 6 rounds of 8.
SecondRoundHit ==
  /\ last.op = "try_shoot"
  /\ eng.difficulty = "Easy"
  /\ eng.score = 9
  /\ eng.targets = << >>
  /\ eng.ammo = eng.max_ammo - 2
  /\ eng.cues = <<"shot", "hit">>

(***************************************************************************)
(* C36: every reload that starts completes in the end, as long as the loop *)
(* keeps ticking and time advances: reloading becomes false with the       *)
(* magazine full, whether the game is paused, the overlay open or a        *)
(* difficulty selected during the reload.                                  *)
(***************************************************************************)
ReloadCompletes ==
  eng.reloading ~> (~eng.reloading /\ eng.ammo = eng.max_ammo)

\* A reload has just completed in a paused game with the overlay open,
\* Hard selected while it ran: the magazine holds the 5 rounds of Hard.
ReloadedUnderOverlay ==
  /\ last.op = "run_iteration"
  /\ eng.cues = <<"reload">>
  /\ ~eng.reloading
  /\ eng.show_options /\ eng.paused
  /\ eng.difficulty = "Hard"
  /\ eng.ammo = 5 /\ eng.max_ammo = 5

(***************************************************************************)
(* C37: the circle of every live target lies inside the play area in every *)
(* reachable state: radius <= x <= width - radius and                      *)
(* radius <= y <= height - radius, at the spawn, for the three profiles    *)
(* and the three types, and after any number of updates.                   *)
(***************************************************************************)
TargetsInsidePlayArea ==
  \A i \in 1..Len(eng.targets) :
    LET t == eng.targets[i]
    IN  /\ t.radius <= t.x /\ t.x <= screen_width - t.radius
        /\ t.radius <= t.y /\ t.y <= screen_height - t.radius

\* A moving target of Easy, spawned 50 from the left edge with radius 44,
\* has just bounced off that edge.
BouncedOffLeftEdge ==
  /\ last.op = "update_targets"
  /\ Len(eng.targets) = 1
  /\ eng.targets[1].type = "moving"
  /\ eng.targets[1].radius = 44
  /\ eng.targets[1].x = 44
  /\ eng.targets[1].vx > 0

====
